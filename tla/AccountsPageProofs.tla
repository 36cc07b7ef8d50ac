------------------------- MODULE AccountsPageProofs -------------------------
(***************************************************************************)
(* Theorems about AccountsPage: its type invariant, and that the page      *)
(* implements ListView, so that it never shows a list that the server did  *)
(* not give it.                                                            *)
(***************************************************************************)
EXTENDS AccountsPage, TLAPS

(***************************************************************************)
(* The inductive invariant adds that a page which is gone is as it was     *)
(* left: it shows nothing, has no form, and no call is its own.            *)
(***************************************************************************)
GoneIsEmpty ==
    ~accountsPage.mounted =>
        /\ accountsPage.view = NoAccounts /\ accountsPage.form = NoForm
        /\ \A s \in Slot : ~accountCalls[s].mine

AccountsInv == AccountsTypeOK /\ GoneIsEmpty

(***************************************************************************)
(* What the records are made of                                            *)
(***************************************************************************)

\* The values a page and a call start from are well-formed.
LEMMA StartValues ==
    /\ NoAccounts \in AccountList
    /\ EmptyDraft \in Draft
    /\ FreshAccountsPage \in AccountsPageState
    /\ NoAccountCall \in AccountCall
<1>1. NoAccounts \in AccountList
  BY DEF NoAccounts, AccountList
<1>2. EmptyDraft \in Draft
  BY AccountsAssumption DEF EmptyDraft, Draft
<1>3. 0 \in 0 .. MaxAccounts /\ NoForm \in NoForm .. MaxAccounts
  BY AccountsAssumption DEF NoForm
<1>4. FreshAccountsPage \in AccountsPageState
  BY <1>1, <1>2, <1>3 DEF FreshAccountsPage, AccountsPageState
<1>5. NoAccountCall \in AccountCall
  BY <1>1, <1>2, <1>3 DEF NoAccountCall, AccountCall, CallState
<1> QED
  BY <1>1, <1>2, <1>4, <1>5

\* A new call is well-formed, and carries no listing yet.
LEMMA AskedCall ==
    ASSUME NEW kind \in AccountKinds, NEW id \in 0 .. MaxAccounts
    PROVE  /\ AccountAsk(kind, id) \in AccountCall
           /\ AccountAsk(kind, id).kind = kind
           /\ AccountAsk(kind, id).mine /\ ~AccountAsk(kind, id).own
           /\ AccountAsk(kind, id).id = id
           /\ AccountAsk(kind, id).state = "sent"
<1>1. /\ NoAccountCall \in AccountCall
      /\ ~NoAccountCall.own /\ NoAccountCall.state = "sent"
  BY StartValues DEF NoAccountCall
<1> QED
  BY <1>1 DEF AccountAsk, AccountCall

\* The call for a list.
LEMMA AskedList ==
    /\ AskList \in AccountCall
    /\ AskList.kind = "list" /\ AskList.mine /\ ~AskList.own /\ AskList.state = "sent"
<1>1. "list" \in AccountKinds /\ 0 \in 0 .. MaxAccounts
  BY AccountsAssumption DEF AccountKinds
<1> QED
  BY <1>1, AskedCall DEF AskList

\* The calls that hold a listing for the page.
Carries(calls, s) ==
    calls[s].kind = "list" /\ calls[s].mine /\ calls[s].state = "ok"

\* Calls that carry the same listings are the same to the page.
LEMMA SameFlying ==
    ASSUME \A s \in Slot : /\ Carries(accountCalls', s) <=> Carries(accountCalls, s)
                           /\ Carries(accountCalls, s) =>
                                  accountCalls'[s].list = accountCalls[s].list
    PROVE  AccountsFlying' = AccountsFlying
  BY DEF AccountsFlying, Carries

\* A call is sent from a free slot.
LEMMA Sending ==
    ASSUME AccountsInv, NEW call \in AccountCall, call.state = "sent",
           SendAccountCall(call)
    PROVE  /\ accountCalls' \in [Slot -> AccountCall]
           /\ AccountsFlying' = AccountsFlying
<1>1. PICK s \in Free(accountCalls) : accountCalls' = [accountCalls EXCEPT ![s] = call]
  BY DEF SendAccountCall
<1>2. s \in Slot /\ accountCalls[s].kind = "idle"
  BY <1>1 DEF Free
<1>3. accountCalls \in [Slot -> AccountCall]
  BY DEF AccountsInv, AccountsTypeOK
<1>4. \A r \in Slot : /\ Carries(accountCalls', r) <=> Carries(accountCalls, r)
                      /\ Carries(accountCalls, r) =>
                             accountCalls'[r].list = accountCalls[r].list
  BY <1>1, <1>2, <1>3 DEF Carries
<1> QED
  BY <1>1, <1>2, <1>3, <1>4, SameFlying

\* A call comes back to its handler, which ends.
LEMMA Ending ==
    ASSUME AccountsInv, NEW s \in Slot, NEW p \in AccountsPageState,
           EndAccountCall(s, p), accountCalls[s].kind # "list"
    PROVE  /\ accountCalls' \in [Slot -> AccountCall]
           /\ AccountsFlying' = AccountsFlying
           /\ accountsPage' \in AccountsPageState
           /\ accountsPage' = IF accountCalls[s].mine THEN p ELSE accountsPage
           /\ \A r \in Slot : accountCalls'[r].mine => accountCalls[r].mine
<1>1. accountCalls' = [accountCalls EXCEPT ![s] = NoAccountCall]
  BY DEF EndAccountCall
<1>2. accountCalls \in [Slot -> AccountCall] /\ accountsPage \in AccountsPageState
  BY DEF AccountsInv, AccountsTypeOK
<1>3. NoAccountCall \in AccountCall /\ NoAccountCall.kind = "idle" /\ ~NoAccountCall.mine
  BY StartValues DEF NoAccountCall
<1>4. \A r \in Slot : /\ Carries(accountCalls', r) <=> Carries(accountCalls, r)
                      /\ Carries(accountCalls, r) =>
                             accountCalls'[r].list = accountCalls[r].list
                      /\ accountCalls'[r].mine => accountCalls[r].mine
  BY <1>1, <1>2, <1>3 DEF Carries
<1> QED
  BY <1>1, <1>2, <1>3, <1>4, SameFlying DEF EndAccountCall

\* It comes back, and its handler asks for the list.
LEMMA Reloading ==
    ASSUME AccountsInv, NEW s \in Slot, NEW p \in AccountsPageState,
           Reload(s, p), accountCalls[s].kind # "list"
    PROVE  /\ accountCalls' \in [Slot -> AccountCall]
           /\ AccountsFlying' = AccountsFlying
           /\ accountsPage' \in AccountsPageState
           /\ accountsPage' = IF accountCalls[s].mine THEN [p EXCEPT !.loading = TRUE]
                              ELSE accountsPage
           /\ \A r \in Slot : accountCalls'[r].mine => accountCalls[r].mine
<1> DEFINE asked == [AskList EXCEPT !.mine = accountCalls[s].mine]
<1>1. accountCalls' = [accountCalls EXCEPT ![s] = asked]
  BY DEF Reload
<1>2. accountCalls \in [Slot -> AccountCall] /\ accountsPage \in AccountsPageState
  BY DEF AccountsInv, AccountsTypeOK
<1>3. accountCalls[s].mine \in BOOLEAN
  BY <1>2 DEF AccountCall
<1>4. asked \in AccountCall /\ asked.state = "sent" /\ asked.mine = accountCalls[s].mine
  BY <1>3, AskedList DEF AccountCall
<1> HIDE DEF asked
<1>5. \A r \in Slot : /\ Carries(accountCalls', r) <=> Carries(accountCalls, r)
                      /\ Carries(accountCalls, r) =>
                             accountCalls'[r].list = accountCalls[r].list
                      /\ accountCalls'[r].mine => accountCalls[r].mine
  BY <1>1, <1>2, <1>4 DEF Carries
<1>6. [p EXCEPT !.loading = TRUE] \in AccountsPageState
  BY DEF AccountsPageState
<1> QED
  BY <1>1, <1>2, <1>4, <1>5, <1>6, SameFlying DEF Reload

(***************************************************************************)
(* The user's acts                                                         *)
(***************************************************************************)

\* What the page and ListView make of a step that shows nothing new.
Unseen ==
    /\ AccountsInv'
    /\ UNCHANGED <<pool, AccountsFlying, accountsPage.view>>

\* An act of the open page that leaves its list alone.
LEMMA ActUnseen ==
    ASSUME AccountsInv, AccountAct, accountsPage.mounted,
           UNCHANGED <<pool, serial, steady>>,
           accountsPage' \in AccountsPageState, accountsPage'.mounted,
           accountsPage'.view = accountsPage.view,
           accountCalls' \in [Slot -> AccountCall],
           AccountsFlying' = AccountsFlying
    PROVE  Unseen
<1>1. accountActs' \in 0 .. MaxAccountActs
  BY AccountsAssumption DEF AccountAct, AccountsInv, AccountsTypeOK
<1> QED
  BY <1>1 DEF Unseen, AccountsInv, AccountsTypeOK, GoneIsEmpty

\* What a card shows.
LEMMA ShownAccount ==
    ASSUME AccountsInv, NEW a \in Listed
    PROVE  a \in Account /\ a \in 0 .. MaxAccounts /\ accountsPage.view[a] \in AccountRow
  BY AccountsAssumption
     DEF Listed, AccountsInv, AccountsTypeOK, AccountsPageState, AccountList, Account

\* The acts that send a call and change no more than a spinner.
LEMMA CardActs ==
    ASSUME AccountsInv,
           RefreshAccounts \/ \E a \in Account : \/ ToggleEnable(a)
                                                 \/ TestAccount(a)
                                                 \/ InitializeAccount(a)
                                                 \/ ResetAccountQuota(a)
                                                 \/ DeleteAccount(a)
    PROVE  Unseen
<1>t. accountsPage \in AccountsPageState
  BY DEF AccountsInv, AccountsTypeOK
<1>1. CASE RefreshAccounts
  <2>1. AskList \in AccountCall /\ AskList.state = "sent"
    BY AskedList
  <2>2. /\ accountCalls' \in [Slot -> AccountCall]
        /\ AccountsFlying' = AccountsFlying
    BY <1>1, <2>1, Sending DEF RefreshAccounts
  <2>3. /\ accountsPage' = [accountsPage EXCEPT !.loading = TRUE]
        /\ accountsPage.mounted
    BY <1>1 DEF RefreshAccounts, Cards
  <2>4. /\ accountsPage' \in AccountsPageState /\ accountsPage'.mounted
        /\ accountsPage'.view = accountsPage.view
    BY <1>t, <2>3 DEF AccountsPageState
  <2> QED
    BY <1>1, <2>2, <2>3, <2>4, ActUnseen DEF RefreshAccounts
<1>2. ASSUME NEW a \in Account, ToggleEnable(a)
      PROVE  Unseen
  <2> DEFINE draft == [EmptyDraft EXCEPT !.enabled = ~accountsPage.view[a].enabled]
             call == [AccountAsk("toggle", a) EXCEPT !.draft = draft]
  <2>1. a \in Listed /\ accountsPage.mounted
    BY <1>2 DEF ToggleEnable, Cards
  <2>2. a \in 0 .. MaxAccounts /\ accountsPage.view[a].enabled \in BOOLEAN
    BY <2>1, ShownAccount DEF AccountRow
  <2>3. draft \in Draft
    BY <2>2, StartValues DEF Draft
  <2>4. "toggle" \in AccountKinds
    BY DEF AccountKinds
  <2>5. AccountAsk("toggle", a) \in AccountCall /\ AccountAsk("toggle", a).state = "sent"
    BY <2>2, <2>4, AskedCall
  <2>6. call \in AccountCall /\ call.state = "sent"
    BY <2>3, <2>5 DEF AccountCall
  <2>7. SendAccountCall(call)
    BY <1>2 DEF ToggleEnable
  <2> HIDE DEF call
  <2>8. /\ accountCalls' \in [Slot -> AccountCall]
        /\ AccountsFlying' = AccountsFlying
    BY <2>6, <2>7, Sending
  <2> QED
    BY <1>2, <1>t, <2>1, <2>8, ActUnseen DEF ToggleEnable
<1>3. ASSUME NEW a \in Account, TestAccount(a)
      PROVE  Unseen
  <2>1. a \in Listed /\ accountsPage.mounted
    BY <1>3 DEF TestAccount, Cards, CanTest
  <2>2. a \in 0 .. MaxAccounts /\ 0 \in 0 .. MaxAccounts /\ "test" \in AccountKinds
    BY <2>1, ShownAccount, AccountsAssumption DEF AccountKinds
  <2>3. /\ accountCalls' \in [Slot -> AccountCall]
        /\ AccountsFlying' = AccountsFlying
    BY <1>3, <2>2, AskedCall, Sending DEF TestAccount
  <2>4. accountsPage' = [accountsPage EXCEPT !.testing = a, !.tested = 0]
    BY <1>3 DEF TestAccount
  <2>5. /\ accountsPage' \in AccountsPageState /\ accountsPage'.mounted
        /\ accountsPage'.view = accountsPage.view
    BY <1>t, <2>1, <2>2, <2>4 DEF AccountsPageState
  <2> QED
    BY <1>3, <2>1, <2>3, <2>5, ActUnseen DEF TestAccount
<1>4. ASSUME NEW a \in Account, InitializeAccount(a)
      PROVE  Unseen
  <2>1. a \in Listed /\ accountsPage.mounted
    BY <1>4 DEF InitializeAccount, Cards
  <2>2. a \in 0 .. MaxAccounts /\ 0 \in 0 .. MaxAccounts /\ "init" \in AccountKinds
    BY <2>1, ShownAccount, AccountsAssumption DEF AccountKinds
  <2>3. /\ accountCalls' \in [Slot -> AccountCall]
        /\ AccountsFlying' = AccountsFlying
    BY <1>4, <2>2, AskedCall, Sending DEF InitializeAccount
  <2>4. accountsPage' = [accountsPage EXCEPT !.initializing = a, !.initialized = 0]
    BY <1>4 DEF InitializeAccount
  <2>5. /\ accountsPage' \in AccountsPageState /\ accountsPage'.mounted
        /\ accountsPage'.view = accountsPage.view
    BY <1>t, <2>1, <2>2, <2>4 DEF AccountsPageState
  <2> QED
    BY <1>4, <2>1, <2>3, <2>5, ActUnseen DEF InitializeAccount
<1>5. ASSUME NEW a \in Account, ResetAccountQuota(a)
      PROVE  Unseen
  <2>1. a \in Listed /\ accountsPage.mounted
    BY <1>5 DEF ResetAccountQuota, Cards
  <2>2. a \in 0 .. MaxAccounts /\ "reset" \in AccountKinds
    BY <2>1, ShownAccount DEF AccountKinds
  <2>3. /\ accountCalls' \in [Slot -> AccountCall]
        /\ AccountsFlying' = AccountsFlying
    BY <1>5, <2>2, AskedCall, Sending DEF ResetAccountQuota
  <2> QED
    BY <1>5, <1>t, <2>1, <2>3, ActUnseen DEF ResetAccountQuota
<1>6. ASSUME NEW a \in Account, DeleteAccount(a)
      PROVE  Unseen
  <2>1. a \in Listed /\ accountsPage.mounted
    BY <1>6 DEF DeleteAccount, Cards
  <2>2. a \in 0 .. MaxAccounts /\ "delete" \in AccountKinds
    BY <2>1, ShownAccount DEF AccountKinds
  <2>3. /\ accountCalls' \in [Slot -> AccountCall]
        /\ AccountsFlying' = AccountsFlying
    BY <1>6, <2>2, AskedCall, Sending DEF DeleteAccount
  <2> QED
    BY <1>6, <1>t, <2>1, <2>3, ActUnseen DEF DeleteAccount
<1> QED
  BY <1>1, <1>2, <1>3, <1>4, <1>5, <1>6

\* The acts on the form.
LEMMA FormActs ==
    ASSUME AccountsInv,
           \/ \E form \in 0 .. MaxAccounts : OpenForm(form)
           \/ \E draft \in Draft : EditForm(draft)
           \/ SubmitForm
           \/ CloseForm
    PROVE  Unseen
<1>t. accountsPage \in AccountsPageState /\ accountCalls \in [Slot -> AccountCall]
  BY DEF AccountsInv, AccountsTypeOK
<1>m. accountsPage.form # NoForm => accountsPage.mounted
  BY DEF AccountsInv, GoneIsEmpty
<1>1. ASSUME NEW form \in 0 .. MaxAccounts, OpenForm(form)
      PROVE  Unseen
  <2> DEFINE draft == IF form = NewForm THEN EmptyDraft
                      ELSE [enabled |-> accountsPage.view[form].enabled,
                            priority |-> FormPriority(accountsPage.view[form].priority)]
  <2>1. accountsPage.mounted /\ (form = NewForm \/ form \in Listed)
    BY <1>1 DEF OpenForm, Cards
  <2>2. ASSUME form = NewForm
        PROVE  draft \in Draft
    BY <2>2, StartValues
  <2>3. ASSUME form \in Listed, form # NewForm
        PROVE  draft \in Draft
    <3>1. accountsPage.view[form] \in AccountRow
      BY <2>3, ShownAccount
    <3>2. /\ accountsPage.view[form].enabled \in BOOLEAN
          /\ FormPriority(accountsPage.view[form].priority) \in Priority
      BY <3>1, AccountsAssumption DEF AccountRow, FormPriority
    <3> QED
      BY <2>3, <3>2 DEF Draft
  <2>4. draft \in Draft
    BY <2>1, <2>2, <2>3, StartValues
  <2>5. accountsPage' = [accountsPage EXCEPT !.form = form, !.draft = draft]
    BY <1>1 DEF OpenForm
  <2> HIDE DEF draft
  <2>6. form \in NoForm .. MaxAccounts
    BY AccountsAssumption DEF NoForm
  <2>7. /\ accountsPage' \in AccountsPageState /\ accountsPage'.mounted
        /\ accountsPage'.view = accountsPage.view
    BY <1>t, <2>1, <2>4, <2>5, <2>6 DEF AccountsPageState
  <2>8. AccountsFlying' = AccountsFlying
    BY <1>1 DEF OpenForm, AccountsFlying
  <2> QED
    BY <1>1, <1>t, <2>1, <2>7, <2>8, ActUnseen DEF OpenForm
<1>2. ASSUME NEW draft \in Draft, EditForm(draft)
      PROVE  Unseen
  <2>1. accountsPage.mounted /\ accountsPage' = [accountsPage EXCEPT !.draft = draft]
    BY <1>2, <1>m DEF EditForm
  <2>2. /\ accountsPage' \in AccountsPageState /\ accountsPage'.mounted
        /\ accountsPage'.view = accountsPage.view
    BY <1>t, <2>1 DEF AccountsPageState
  <2>3. AccountsFlying' = AccountsFlying
    BY <1>2 DEF EditForm, AccountsFlying
  <2> QED
    BY <1>2, <1>t, <2>1, <2>2, <2>3, ActUnseen DEF EditForm
<1>3. CASE SubmitForm
  <2> DEFINE kind == IF accountsPage.form = NewForm THEN "create" ELSE "edit"
             ask == AccountAsk(kind, accountsPage.form)
             call == [ask EXCEPT !.own = TRUE, !.draft = accountsPage.draft]
  <2>1. accountsPage.form # NoForm /\ accountsPage.mounted
    BY <1>3, <1>m DEF SubmitForm
  <2>2. accountsPage.form \in 0 .. MaxAccounts
    BY <1>t, <2>1, AccountsAssumption DEF AccountsPageState, NoForm
  <2>3. kind \in AccountKinds
    BY DEF AccountKinds
  <2> HIDE DEF kind
  <2>4. ask \in AccountCall /\ ask.state = "sent"
    BY <2>2, <2>3, AskedCall
  <2> HIDE DEF ask
  <2>5. accountsPage.draft \in Draft
    BY <1>t DEF AccountsPageState
  <2>6. call \in AccountCall /\ call.state = "sent"
    BY <2>4, <2>5 DEF AccountCall
  <2>7. SendAccountCall(call)
    BY <1>3 DEF SubmitForm, ask, kind
  <2> HIDE DEF call
  <2>8. /\ accountCalls' \in [Slot -> AccountCall]
        /\ AccountsFlying' = AccountsFlying
    BY <2>6, <2>7, Sending
  <2>9. accountsPage' = [accountsPage EXCEPT !.submitting = TRUE]
    BY <1>3 DEF SubmitForm
  <2>10. /\ accountsPage' \in AccountsPageState /\ accountsPage'.mounted
         /\ accountsPage'.view = accountsPage.view
    BY <1>t, <2>1, <2>9 DEF AccountsPageState
  <2> QED
    BY <1>3, <2>1, <2>8, <2>10, ActUnseen DEF SubmitForm
<1>4. CASE CloseForm
  <2>1. /\ accountsPage.mounted
        /\ accountsPage' = WithoutForm(accountsPage)
        /\ accountCalls' = Disowned(accountCalls)
    BY <1>4, <1>m DEF CloseForm
  <2>2. NoForm \in NoForm .. MaxAccounts
    BY AccountsAssumption DEF NoForm
  <2>3. /\ accountsPage' \in AccountsPageState /\ accountsPage'.mounted
        /\ accountsPage'.view = accountsPage.view
    BY <1>t, <2>1, <2>2, StartValues DEF WithoutForm, AccountsPageState
  <2>4. \A s \in Slot : /\ [accountCalls[s] EXCEPT !.own = FALSE] \in AccountCall
                        /\ accountCalls'[s] = [accountCalls[s] EXCEPT !.own = FALSE]
    BY <1>t, <2>1 DEF Disowned, AccountCall
  <2>5. accountCalls' \in [Slot -> AccountCall]
    BY <2>1, <2>4 DEF Disowned
  <2>6. \A s \in Slot : /\ Carries(accountCalls', s) <=> Carries(accountCalls, s)
                        /\ Carries(accountCalls, s) =>
                               accountCalls'[s].list = accountCalls[s].list
    BY <1>t, <2>4, ZenonT(60) DEF Carries, AccountCall
  <2> QED
    BY <1>4, <2>1, <2>3, <2>5, <2>6, SameFlying, ActUnseen DEF CloseForm
<1> QED
  BY <1>1, <1>2, <1>3, <1>4

(***************************************************************************)
(* The steps that ListView sees                                            *)
(***************************************************************************)

\* The step keeps the invariant, and is one of ListView's or none.
Mapped == AccountsInv' /\ [AccountsView!Next]_(AccountsView!vars)

\* What the abstract page does not see maps to a stutter.
LEMMA UnseenIsMapped == Unseen => Mapped
  BY DEF Unseen, Mapped, AccountsView!vars

\* The page is left, and with it every listing that was meant for it.
LEMMA Leaving ==
    ASSUME AccountsInv, LeaveAccounts
    PROVE  Mapped
<1>t. accountCalls \in [Slot -> AccountCall]
  BY DEF AccountsInv, AccountsTypeOK
<1>1. /\ accountsPage' \in AccountsPageState /\ ~accountsPage'.mounted
      /\ accountsPage'.view = NoAccounts /\ accountsPage'.form = NoForm
  BY StartValues DEF LeaveAccounts, FreshAccountsPage, AccountsPageState
<1>2. \A s \in Slot : /\ [accountCalls[s] EXCEPT !.mine = FALSE] \in AccountCall
                      /\ ~[accountCalls[s] EXCEPT !.mine = FALSE].mine
  BY <1>t DEF AccountCall
<1>3. /\ accountCalls' \in [Slot -> AccountCall]
      /\ \A s \in Slot : ~accountCalls'[s].mine
  BY <1>2 DEF LeaveAccounts, Orphaned
<1>4. AccountsFlying' = {}
  BY <1>3 DEF AccountsFlying
<1>5. accountActs' \in 0 .. MaxAccountActs
  BY AccountsAssumption DEF LeaveAccounts, AccountAct, AccountsInv, AccountsTypeOK
<1>6. steady' \in BOOLEAN /\ pool' = pool /\ serial' = serial
  BY DEF LeaveAccounts, AccountsInv, AccountsTypeOK
<1>7. AccountsInv'
  BY <1>1, <1>3, <1>5, <1>6 DEF AccountsInv, AccountsTypeOK, GoneIsEmpty
<1>8. AccountsView!Leave
  BY <1>1, <1>4, <1>6 DEF AccountsView!Leave
<1> QED
  BY <1>7, <1>8 DEF Mapped, AccountsView!Next

\* The page is opened again, and shows nothing yet.
LEMMA Returning ==
    ASSUME AccountsInv, ReturnToAccounts
    PROVE  Unseen
<1>1. AskList \in AccountCall /\ AskList.state = "sent"
  BY AskedList
<1>2. accountCalls' \in [Slot -> AccountCall] /\ AccountsFlying' = AccountsFlying
  BY <1>1, Sending DEF ReturnToAccounts
<1>3. /\ accountsPage' \in AccountsPageState /\ accountsPage'.mounted
      /\ accountsPage'.view = NoAccounts
  BY StartValues DEF ReturnToAccounts, FreshAccountsPage
<1>4. accountsPage.view = NoAccounts
  BY DEF ReturnToAccounts, AccountsInv, GoneIsEmpty
<1> QED
  BY <1>2, <1>3, <1>4
     DEF ReturnToAccounts, Unseen, AccountsInv, AccountsTypeOK, GoneIsEmpty

\* The server executes a call: its record keeps everything but its state and
\* its listing.
LEMMA Executing ==
    ASSUME AccountsInv, NEW s \in Slot, NEW state \in CallState,
           NEW list \in AccountList, Executed(s, state, list)
    PROVE  /\ accountCalls' \in [Slot -> AccountCall]
           /\ accountCalls'[s].kind = accountCalls[s].kind
           /\ accountCalls'[s].state = state /\ accountCalls'[s].list = list
           /\ \A r \in Slot : accountCalls'[r].mine = accountCalls[r].mine
           /\ \A r \in Slot \ {s} : accountCalls'[r] = accountCalls[r]
<1>1. accountCalls \in [Slot -> AccountCall]
  BY DEF AccountsInv, AccountsTypeOK
<1> DEFINE call == [accountCalls[s] EXCEPT !.state = state, !.list = list]
<1>2. /\ call \in AccountCall
      /\ call.kind = accountCalls[s].kind /\ call.mine = accountCalls[s].mine
      /\ call.state = state /\ call.list = list
  BY <1>1 DEF AccountCall
<1>3. accountCalls' = [accountCalls EXCEPT ![s] = call]
  BY <1>1 DEF Executed
<1> HIDE DEF call
<1> QED
  BY <1>1, <1>2, <1>3

\* A listing is taken for the page, or for nobody.
LEMMA Serving ==
    ASSUME AccountsInv, NEW s \in Slot, ServeList(s)
    PROVE  Mapped
<1>t. /\ accountCalls \in [Slot -> AccountCall] /\ pool \in AccountList
      /\ accountCalls[s].kind = "list" /\ accountCalls[s].state = "sent"
      /\ UNCHANGED <<pool, serial, accountsPage, accountActs>>
  BY DEF AccountsInv, AccountsTypeOK, ServeList
<1>1. ASSUME NEW state \in {"ok", "error"}, NEW list \in AccountList,
             state = "ok" => list = pool, Executed(s, state, list), steady' \in BOOLEAN
      PROVE  Mapped
  <2>1. /\ accountCalls' \in [Slot -> AccountCall]
        /\ accountCalls'[s].kind = "list"
        /\ accountCalls'[s].state = state /\ accountCalls'[s].list = list
        /\ \A r \in Slot : accountCalls'[r].mine = accountCalls[r].mine
        /\ \A r \in Slot \ {s} : accountCalls'[r] = accountCalls[r]
    BY <1>1, <1>t, Executing DEF CallState
  <2>2. AccountsInv'
    BY <1>1, <1>t, <2>1 DEF AccountsInv, AccountsTypeOK, GoneIsEmpty
  <2>3. CASE accountCalls[s].mine /\ state = "ok"
    <3>1. /\ \A r \in Slot : Carries(accountCalls', r) <=> Carries(accountCalls, r) \/ r = s
          /\ ~Carries(accountCalls, s)
      BY <1>t, <2>1, <2>3 DEF Carries
    <3>2. AccountsFlying' = AccountsFlying \union {pool}
      BY <1>1, <2>1, <2>3, <3>1 DEF AccountsFlying, Carries
    <3>3. AccountsView!Take
      BY <1>t, <3>2 DEF AccountsView!Take
    <3> QED
      BY <2>2, <3>3 DEF Mapped, AccountsView!Next
  <2>4. CASE ~(accountCalls[s].mine /\ state = "ok")
    <3>1. \A r \in Slot : /\ Carries(accountCalls', r) <=> Carries(accountCalls, r)
                          /\ Carries(accountCalls, r) =>
                                 accountCalls'[r].list = accountCalls[r].list
      BY <1>t, <2>1, <2>4 DEF Carries
    <3> QED
      BY <1>t, <2>2, <3>1, SameFlying, UnseenIsMapped DEF Unseen
  <2> QED
    BY <2>3, <2>4
<1>2. CASE Executed(s, "ok", pool) /\ UNCHANGED steady
  BY <1>1, <1>2, <1>t DEF AccountsInv, AccountsTypeOK
<1>3. CASE Executed(s, "error", NoAccounts) /\ steady' = FALSE
  BY <1>1, <1>3, StartValues
<1> QED
  BY <1>2, <1>3 DEF ServeList

\* The accounts change; no listing does.
LEMMA Changing ==
    ASSUME AccountsInv, pool' \in AccountList, serial' \in 0 .. MaxAccounts,
           accountActs' \in 0 .. MaxAccountActs, steady' \in BOOLEAN,
           UNCHANGED accountsPage, accountCalls' \in [Slot -> AccountCall],
           \A s \in Slot : accountCalls'[s].mine = accountCalls[s].mine,
           AccountsFlying' = AccountsFlying
    PROVE  Mapped
<1>1. AccountsInv'
  BY DEF AccountsInv, AccountsTypeOK, GoneIsEmpty
<1>2. AccountsView!Change
  BY DEF AccountsView!Change
<1> QED
  BY <1>1, <1>2 DEF Mapped, AccountsView!Next

\* The execution of a call that asks for no list.
LEMMA ExecutingOther ==
    ASSUME AccountsInv, NEW s \in Slot, NEW state \in {"ok", "error"},
           Executed(s, state, NoAccounts), accountCalls[s].kind # "list"
    PROVE  /\ accountCalls' \in [Slot -> AccountCall]
           /\ \A r \in Slot : accountCalls'[r].mine = accountCalls[r].mine
           /\ AccountsFlying' = AccountsFlying
<1>1. /\ accountCalls' \in [Slot -> AccountCall]
      /\ accountCalls'[s].kind = accountCalls[s].kind
      /\ \A r \in Slot : accountCalls'[r].mine = accountCalls[r].mine
      /\ \A r \in Slot \ {s} : accountCalls'[r] = accountCalls[r]
  BY StartValues, Executing DEF CallState
<1>2. \A r \in Slot : /\ Carries(accountCalls', r) <=> Carries(accountCalls, r)
                      /\ Carries(accountCalls, r) =>
                             accountCalls'[r].list = accountCalls[r].list
  BY <1>1 DEF Carries
<1> QED
  BY <1>1, <1>2, SameFlying

\* An update, a deletion, a test, an initialisation or a reset.
LEMMA Updating ==
    ASSUME AccountsInv, NEW s \in Slot, ServeUpdate(s)
    PROVE  Mapped
<1> DEFINE call == accountCalls[s]
           there == pool[call.id] # NoRow
<1>t. /\ call \in AccountCall /\ pool \in AccountList
      /\ call.kind \in AccountKinds \ {"list", "create"}
      /\ UNCHANGED <<serial, accountsPage, accountActs>>
  BY DEF AccountsInv, AccountsTypeOK, ServeUpdate
<1>1. PICK done \in BOOLEAN, state \in {"ok", "error"} :
        /\ pool' = [pool EXCEPT ![call.id] = IF done /\ there THEN RowAfter(@, call) ELSE @]
        /\ Executed(s, state, NoAccounts)
        /\ steady' = (steady /\ state = "ok")
  BY DEF ServeUpdate
<1>2. ASSUME NEW row \in AccountRow
      PROVE  RowAfter(row, call) \in AccountRow \union {NoRow}
  <2>1. call.draft.enabled \in BOOLEAN /\ call.draft.priority \in Priority
    BY <1>t DEF AccountCall, Draft
  <2> HIDE DEF call
  <2> QED
    BY <2>1 DEF RowAfter, AccountRow
<1>3. \A a \in Account : pool'[a] \in AccountRow \union {NoRow}
  BY <1>t, <1>1, <1>2 DEF AccountList
<1>4. pool' \in AccountList
  BY <1>t, <1>1, <1>3 DEF AccountList
<1>5. steady' \in BOOLEAN
  BY <1>1 DEF AccountsInv, AccountsTypeOK
<1>6. call.kind # "list"
  BY <1>t
<1>7. /\ accountCalls' \in [Slot -> AccountCall]
      /\ \A r \in Slot : accountCalls'[r].mine = accountCalls[r].mine
      /\ AccountsFlying' = AccountsFlying
  BY <1>1, <1>6, ExecutingOther
<1> QED
  BY <1>t, <1>4, <1>5, <1>7, Changing DEF AccountsInv, AccountsTypeOK

\* A new account.
LEMMA Creating ==
    ASSUME AccountsInv, NEW s \in Slot, ServeCreate(s)
    PROVE  Mapped
<1> DEFINE call == accountCalls[s]
           row == [enabled |-> call.draft.enabled, priority |-> call.draft.priority,
                   exhausted |-> FALSE]
<1>t. /\ call \in AccountCall /\ pool \in AccountList /\ serial \in 0 .. MaxAccounts
      /\ call.kind = "create" /\ UNCHANGED <<accountsPage, accountActs>>
  BY DEF AccountsInv, AccountsTypeOK, ServeCreate
<1>1. PICK done \in BOOLEAN, state \in {"ok", "error"} :
        /\ done => serial < MaxAccounts
        /\ pool' = IF done THEN [pool EXCEPT ![serial + 1] = row] ELSE pool
        /\ serial' = IF done THEN serial + 1 ELSE serial
        /\ Executed(s, state, NoAccounts)
        /\ steady' = (steady /\ state = "ok")
  BY DEF ServeCreate
<1>2. row \in AccountRow
  <2>1. call.draft.enabled \in BOOLEAN /\ call.draft.priority \in Priority
    BY <1>t DEF AccountCall, Draft
  <2> QED
    BY <2>1 DEF AccountRow
<1>3. pool' \in AccountList
  BY <1>t, <1>1, <1>2 DEF AccountList
<1>4. serial' \in 0 .. MaxAccounts /\ steady' \in BOOLEAN
  BY <1>t, <1>1, AccountsAssumption DEF AccountsInv, AccountsTypeOK
<1>5. /\ accountCalls' \in [Slot -> AccountCall]
      /\ \A r \in Slot : accountCalls'[r].mine = accountCalls[r].mine
      /\ AccountsFlying' = AccountsFlying
  BY <1>1, <1>t, ExecutingOther
<1> QED
  BY <1>t, <1>3, <1>4, <1>5, Changing DEF AccountsInv, AccountsTypeOK

\* Somebody else's change.
LEMMA ChangingElsewhere ==
    ASSUME AccountsInv, NEW a \in Account, ChangeElsewhere(a)
    PROVE  Mapped
<1>t. /\ pool \in AccountList /\ pool[a] \in AccountRow
      /\ UNCHANGED <<serial, accountsPage, accountCalls>> /\ steady' = FALSE
  BY DEF AccountsInv, AccountsTypeOK, ChangeElsewhere, AccountList
<1>1. [pool[a] EXCEPT !.exhausted = TRUE] \in AccountRow
  BY <1>t DEF AccountRow
<1>2. pool' \in AccountList
  BY <1>t, <1>1 DEF ChangeElsewhere, AccountList
<1>3. accountActs' \in 0 .. MaxAccountActs
  BY AccountsAssumption DEF ChangeElsewhere, AccountAct, AccountsInv, AccountsTypeOK
<1>4. AccountsFlying' = AccountsFlying
  BY <1>t DEF AccountsFlying
<1> QED
  BY <1>t, <1>2, <1>3, <1>4, Changing DEF AccountsInv, AccountsTypeOK

(***************************************************************************)
(* The handlers                                                            *)
(***************************************************************************)

\* A handler that ends, or asks for the list, with a page that shows the
\* list it showed.
LEMMA HandlerUnseen ==
    ASSUME AccountsInv, NEW s \in Slot, NEW p \in AccountsPageState,
           accountCalls[s].kind # "list",
           p.view = accountsPage.view, p.mounted = accountsPage.mounted,
           \/ EndAccountCall(s, p) /\ steady' = steady
           \/ Reload(s, p)
    PROVE  Unseen
<1>1. /\ accountCalls' \in [Slot -> AccountCall]
      /\ AccountsFlying' = AccountsFlying
      /\ accountsPage' \in AccountsPageState
      /\ accountsPage' = IF accountCalls[s].mine
                         THEN IF Reload(s, p) THEN [p EXCEPT !.loading = TRUE] ELSE p
                         ELSE accountsPage
      /\ \A r \in Slot : accountCalls'[r].mine => accountCalls[r].mine
  <2>1. CASE Reload(s, p)
    BY <2>1, Reloading
  <2>2. CASE ~Reload(s, p)
    BY <2>2, Ending
  <2> QED
    BY <2>1, <2>2
<1>2. /\ accountsPage'.view = accountsPage.view
      /\ accountsPage'.mounted = accountsPage.mounted
  BY <1>1 DEF AccountsPageState
<1>3. ~accountsPage.mounted => accountsPage' = accountsPage
  BY <1>1 DEF AccountsInv, GoneIsEmpty
<1>4. UNCHANGED <<pool, serial, accountActs, steady>>
  BY DEF EndAccountCall, Reload
<1> QED
  BY <1>1, <1>2, <1>3, <1>4 DEF Unseen, AccountsInv, AccountsTypeOK, GoneIsEmpty

\* The answers to acts on a card.
LEMMA CardAnswers ==
    ASSUME AccountsInv, NEW s \in Slot,
           Toggled(s) \/ QuotaReset(s) \/ AccountDeleted(s) \/ Tested(s) \/ Initialized(s)
    PROVE  Unseen
<1>t. accountsPage \in AccountsPageState /\ accountCalls[s] \in AccountCall
  BY DEF AccountsInv, AccountsTypeOK
<1>k. accountCalls[s].kind # "list"
  BY DEF Toggled, QuotaReset, AccountDeleted, Tested, Initialized, Back
<1>1. CASE Toggled(s) \/ QuotaReset(s) \/ AccountDeleted(s)
  BY <1>1, <1>t, <1>k, HandlerUnseen DEF Toggled, QuotaReset, AccountDeleted
<1>i. accountCalls[s].id \in 0 .. MaxAccounts /\ 0 \in 0 .. MaxAccounts
  BY <1>t, AccountsAssumption DEF AccountCall
<1>2. CASE Tested(s)
  <2> DEFINE p == [accountsPage EXCEPT !.tested = accountCalls[s].id, !.testing = 0]
  <2>1. /\ p \in AccountsPageState
        /\ p.view = accountsPage.view /\ p.mounted = accountsPage.mounted
    BY <1>t, <1>i DEF AccountsPageState
  <2>2. Reload(s, p) \/ (EndAccountCall(s, p) /\ steady' = steady)
    BY <1>2 DEF Tested
  <2> HIDE DEF p
  <2> QED
    BY <1>k, <2>1, <2>2, HandlerUnseen
<1>3. CASE Initialized(s)
  <2> DEFINE p == [accountsPage EXCEPT !.initialized = accountCalls[s].id,
                                       !.initializing = 0]
  <2>1. /\ p \in AccountsPageState
        /\ p.view = accountsPage.view /\ p.mounted = accountsPage.mounted
    BY <1>t, <1>i DEF AccountsPageState
  <2>2. Reload(s, p) \/ (EndAccountCall(s, p) /\ steady' = steady)
    BY <1>3 DEF Initialized
  <2> HIDE DEF p
  <2> QED
    BY <1>k, <2>1, <2>2, HandlerUnseen
<1> QED
  BY <1>1, <1>2, <1>3

\* The answer to a form.
LEMMA FormAnswers ==
    ASSUME AccountsInv, NEW s \in Slot, Saved(s)
    PROVE  Unseen
<1>t. /\ accountsPage \in AccountsPageState
      /\ accountCalls \in [Slot -> AccountCall]
      /\ accountCalls[s].mine \in BOOLEAN /\ steady' = steady
  BY DEF AccountsInv, AccountsTypeOK, Saved, AccountCall
<1>k. accountCalls[s].kind # "list"
  BY DEF Saved, Back
<1>1. CASE Succeeded(accountCalls, s)
  <2> DEFINE asked == [AskList EXCEPT !.mine = accountCalls[s].mine]
             p == [WithoutForm(accountsPage) EXCEPT !.loading = TRUE]
             others == IF accountCalls[s].mine THEN Disowned(accountCalls)
                       ELSE accountCalls
  <2>1. /\ accountCalls' = [others EXCEPT ![s] = asked]
        /\ accountsPage' = IF accountCalls[s].mine THEN p ELSE accountsPage
        /\ UNCHANGED <<pool, serial, accountActs>>
    BY <1>1 DEF Saved
  <2>2. asked \in AccountCall /\ asked.state = "sent" /\ asked.mine = accountCalls[s].mine
    BY <1>t, AskedList DEF AccountCall
  <2> HIDE DEF asked
  <2>3. NoForm \in NoForm .. MaxAccounts
    BY AccountsAssumption DEF NoForm
  <2>4. WithoutForm(accountsPage) \in AccountsPageState
    BY <1>t, <2>3, StartValues DEF WithoutForm, AccountsPageState
  <2>5. /\ p \in AccountsPageState
        /\ p.view = accountsPage.view /\ p.mounted = accountsPage.mounted
    BY <1>t, <2>4 DEF WithoutForm, AccountsPageState
  <2> HIDE DEF p
  <2>6. \A r \in Slot : /\ Disowned(accountCalls)[r] = [accountCalls[r] EXCEPT !.own = FALSE]
                        /\ Disowned(accountCalls)[r] \in AccountCall
    BY <1>t DEF Disowned, AccountCall
  <2>7. /\ others \in [Slot -> AccountCall]
        /\ \A r \in Slot : \/ others[r] = accountCalls[r]
                           \/ others[r] = [accountCalls[r] EXCEPT !.own = FALSE]
    BY <1>t, <2>6 DEF Disowned
  <2> HIDE DEF others
  <2>8. accountCalls' \in [Slot -> AccountCall]
    BY <2>1, <2>2, <2>7
  <2>9. \A r \in Slot : /\ Carries(accountCalls', r) <=> Carries(accountCalls, r)
                        /\ Carries(accountCalls, r) =>
                               accountCalls'[r].list = accountCalls[r].list
                        /\ accountCalls'[r].mine => accountCalls[r].mine
    BY <1>t, <1>k, <2>1, <2>2, <2>7 DEF Carries, AccountCall
  <2>10. AccountsFlying' = AccountsFlying
    BY <2>9, SameFlying
  <2>11. ~accountsPage.mounted => accountsPage' = accountsPage
    BY <2>1 DEF AccountsInv, GoneIsEmpty
  <2>12. /\ accountsPage' \in AccountsPageState
         /\ accountsPage'.view = accountsPage.view
         /\ accountsPage'.mounted = accountsPage.mounted
    BY <1>t, <2>1, <2>5
  <2> QED
    BY <1>t, <2>1, <2>8, <2>9, <2>10, <2>11, <2>12
       DEF Unseen, AccountsInv, AccountsTypeOK, GoneIsEmpty
<1>2. CASE ~Succeeded(accountCalls, s)
  <2> DEFINE p == IF accountCalls[s].own THEN [accountsPage EXCEPT !.submitting = FALSE]
                  ELSE accountsPage
  <2>1. /\ p \in AccountsPageState
        /\ p.view = accountsPage.view /\ p.mounted = accountsPage.mounted
    BY <1>t DEF AccountsPageState
  <2>2. EndAccountCall(s, p)
    BY <1>2 DEF Saved
  <2> HIDE DEF p
  <2> QED
    BY <1>t, <1>k, <2>1, <2>2, HandlerUnseen
<1> QED
  BY <1>1, <1>2

\* A listing comes back, and is shown if it was meant for this page.
LEMMA Listing ==
    ASSUME AccountsInv, NEW s \in Slot, AccountsListed(s)
    PROVE  Mapped
<1> DEFINE p == [accountsPage EXCEPT
                     !.loading = FALSE,
                     !.view = IF Succeeded(accountCalls, s) THEN accountCalls[s].list ELSE @]
<1>t. /\ accountsPage \in AccountsPageState
      /\ accountCalls \in [Slot -> AccountCall]
      /\ accountCalls[s].list \in AccountList /\ accountCalls[s].kind = "list"
      /\ accountCalls[s].mine \in BOOLEAN
  BY DEF AccountsInv, AccountsTypeOK, AccountsListed, AccountCall, Back
<1>1. /\ accountCalls' = [accountCalls EXCEPT ![s] = NoAccountCall]
      /\ accountsPage' = IF accountCalls[s].mine THEN p ELSE accountsPage
      /\ UNCHANGED <<pool, serial, accountActs>>
  BY DEF AccountsListed, EndAccountCall
<1>2. /\ p \in AccountsPageState /\ p.mounted = accountsPage.mounted
      /\ p.view = IF Succeeded(accountCalls, s) THEN accountCalls[s].list
                  ELSE accountsPage.view
  BY <1>t DEF AccountsPageState
<1> HIDE DEF p
<1>3. NoAccountCall \in AccountCall /\ NoAccountCall.kind = "idle" /\ ~NoAccountCall.mine
  BY StartValues DEF NoAccountCall
<1>4. /\ accountCalls' \in [Slot -> AccountCall]
      /\ \A r \in Slot : accountCalls'[r].mine => accountCalls[r].mine
      /\ \A r \in Slot \ {s} : accountCalls'[r] = accountCalls[r]
      /\ ~Carries(accountCalls', s)
  BY <1>t, <1>1, <1>3 DEF Carries
<1>5. ~accountsPage.mounted => accountsPage' = accountsPage
  BY <1>1 DEF AccountsInv, GoneIsEmpty
<1>6. steady' \in BOOLEAN
  BY DEF AccountsListed, AccountsInv, AccountsTypeOK
<1>7. accountsPage' \in AccountsPageState /\ accountsPage'.mounted = accountsPage.mounted
  BY <1>t, <1>1, <1>2
<1>8. AccountsInv'
  BY <1>1, <1>4, <1>5, <1>6, <1>7 DEF AccountsInv, AccountsTypeOK, GoneIsEmpty
<1>9. CASE Carries(accountCalls, s)
  <2>1. accountCalls[s].list \in AccountsFlying
    BY <1>9 DEF AccountsFlying, Carries
  <2>2. accountsPage'.view = accountCalls[s].list
    BY <1>1, <1>2, <1>9 DEF Carries, Succeeded
  <2>3. \A r \in Slot : Carries(accountCalls', r) <=> Carries(accountCalls, r) /\ r # s
    BY <1>4 DEF Carries
  <2>4. AccountsFlying' = {accountCalls[r].list : r \in {q \in Slot \ {s} : Carries(accountCalls, q)}}
    BY <1>4, <2>3 DEF AccountsFlying, Carries
  <2>5. AccountsFlying = {accountCalls[r].list : r \in {q \in Slot : Carries(accountCalls, q)}}
    BY DEF AccountsFlying, Carries
  <2>6. AccountsFlying' \in {AccountsFlying, AccountsFlying \ {accountCalls[s].list}}
    <3>1. CASE \E r \in Slot \ {s} : /\ Carries(accountCalls, r)
                                     /\ accountCalls[r].list = accountCalls[s].list
      BY <1>9, <2>4, <2>5, <3>1
    <3>2. CASE ~ \E r \in Slot \ {s} : /\ Carries(accountCalls, r)
                                       /\ accountCalls[r].list = accountCalls[s].list
      BY <1>9, <2>4, <2>5, <3>2
    <3> QED
      BY <3>1, <3>2
  <2>7. AccountsView!Show
    BY <1>1, <2>1, <2>2, <2>6 DEF AccountsView!Show
  <2> QED
    BY <1>8, <2>7 DEF Mapped, AccountsView!Next
<1>10. CASE ~Carries(accountCalls, s)
  <2>1. AccountsFlying' = AccountsFlying
    BY <1>4, <1>10, SameFlying DEF Carries
  <2>2. accountsPage'.view = accountsPage.view
    BY <1>t, <1>1, <1>2, <1>10 DEF Carries, Succeeded
  <2> QED
    BY <1>1, <1>8, <2>1, <2>2, UnseenIsMapped DEF Unseen
<1> QED
  BY <1>9, <1>10

(***************************************************************************)
(* The theorems                                                            *)
(***************************************************************************)

\* Every step is a step of ListView or none.
LEMMA AccountsStep ==
    ASSUME AccountsInv, [AccountsNext]_accountsVars
    PROVE  Mapped
<1>1. CASE RefreshAccounts
  BY <1>1, CardActs, UnseenIsMapped
<1>2. ASSUME NEW a \in Account, OnAccount(a)
      PROVE  Mapped
  BY <1>2, CardActs, ChangingElsewhere, UnseenIsMapped DEF OnAccount
<1>3. CASE \/ \E form \in 0 .. MaxAccounts : OpenForm(form)
           \/ \E draft \in Draft : EditForm(draft)
           \/ SubmitForm
           \/ CloseForm
  BY <1>3, FormActs, UnseenIsMapped
<1>4. CASE LeaveAccounts
  BY <1>4, Leaving
<1>5. CASE ReturnToAccounts
  BY <1>5, Returning, UnseenIsMapped
<1>6. ASSUME NEW s \in Slot, AccountCallStep(s)
      PROVE  Mapped
  BY <1>6, Serving, Updating, Creating, Listing, CardAnswers, FormAnswers, UnseenIsMapped
     DEF AccountCallStep
<1>7. CASE UNCHANGED accountsVars
  <2>1. AccountsFlying' = AccountsFlying
    BY <1>7 DEF accountsVars, AccountsFlying
  <2> QED
    BY <1>7, <2>1, UnseenIsMapped
       DEF accountsVars, Unseen, AccountsInv, AccountsTypeOK, GoneIsEmpty
<1> QED
  BY <1>1, <1>2, <1>3, <1>4, <1>5, <1>6, <1>7 DEF AccountsNext

\* A fresh page shows nothing, and no listing is on its way.
LEMMA AccountsStart ==
    ASSUME AccountsInit
    PROVE  AccountsInv /\ AccountsView!Init
<1>1. accountCalls \in [Slot -> AccountCall]
  BY AskedList, StartValues DEF AccountsInit
<1>2. pool \in AccountList /\ serial \in 0 .. MaxAccounts
  BY AccountsAssumption DEF AccountsInit, Account
<1>3. /\ accountsPage \in AccountsPageState /\ accountsPage.mounted
      /\ accountsPage.view = NoAccounts
  BY StartValues DEF AccountsInit, FreshAccountsPage
<1>4. AccountsFlying = {}
  <2>1. \A s \in Slot : accountCalls[s].kind = "list" => accountCalls[s].state = "sent"
    BY AskedList DEF AccountsInit, NoAccountCall
  <2> QED
    BY <2>1 DEF AccountsFlying
<1> QED
  BY <1>1, <1>2, <1>3, <1>4, AccountsAssumption
     DEF AccountsInit, AccountsInv, AccountsTypeOK, GoneIsEmpty, AccountsView!Init

\* Every variable stays in its domain, through every interleaving of the
\* user's acts, the calls and changes elsewhere.
THEOREM AccountsTypeCorrect == AccountsSpec => []AccountsTypeOK
<1>1. AccountsInit => AccountsInv
  BY AccountsStart
<1>2. AccountsInv /\ [AccountsNext]_accountsVars => AccountsInv'
  BY AccountsStep DEF Mapped
<1>3. AccountsInv => AccountsTypeOK
  BY DEF AccountsInv
<1> QED
  BY <1>1, <1>2, <1>3, PTL DEF AccountsSpec

\* The account page implements ListView: whatever is clicked and however the
\* calls are answered, it shows nothing yet or a listing that the server
\* gave it since it was opened.
THEOREM AccountsNeverInventedHolds == AccountsSpec => AccountsNeverInvented
<1>1. AccountsInit => AccountsInv /\ AccountsView!Init
  BY AccountsStart
<1>2. AccountsInv /\ [AccountsNext]_accountsVars
          => AccountsInv' /\ [AccountsView!Next]_(AccountsView!vars)
  BY AccountsStep DEF Mapped
<1> QED
  BY <1>1, <1>2, PTL DEF AccountsSpec, AccountsNeverInvented, AccountsView!Spec

-----------------------------------------------------------------------------
(***************************************************************************)
(* Spinners and buttons.  The flags of the page fall into those that any   *)
(* account may set and those of the open form; each step is looked at for  *)
(* what it does to either.                                                 *)
(***************************************************************************)
ListSpins == accountsPage.loading => Out(accountCalls, "list") # {}

TestSpins ==
    accountsPage.testing # 0 =>
        /\ \E s \in Out(accountCalls, "test") : accountCalls[s].id = accountsPage.testing
        /\ accountsPage.tested = 0

InitSpins ==
    accountsPage.initializing # 0 =>
        /\ \E s \in Out(accountCalls, "init") : accountCalls[s].id = accountsPage.initializing
        /\ accountsPage.initialized = 0

Spinning == ListSpins /\ TestSpins /\ InitSpins

FormKind == IF accountsPage.form = NewForm THEN "create" ELSE "edit"

FormsCall(s) ==
    /\ accountCalls[s].mine /\ accountCalls[s].id = accountsPage.form
    /\ accountCalls[s].kind = FormKind

Owning ==
    /\ accountsPage.submitting <=> \E s \in Slot : accountCalls[s].own
    /\ \A r, s \in Slot : accountCalls[r].own /\ accountCalls[s].own => r = s
    /\ \A s \in Slot : accountCalls[s].own => FormsCall(s)

\* AccountFlagsMatchCalls, in two parts.
LEMMA FlagsParts == AccountFlagsMatchCalls <=> Spinning /\ Owning
  BY DEF AccountFlagsMatchCalls, Spinning, ListSpins, TestSpins, InitSpins,
         Owning, FormsCall, FormKind

\* The call in slot s still stands for what it stood for.
SameCall(s) ==
    /\ accountCalls'[s].kind = accountCalls[s].kind
    /\ accountCalls'[s].id = accountCalls[s].id
    /\ accountCalls'[s].mine = accountCalls[s].mine

\* A spinner stays as it is, or stops, while the calls it stands for are
\* still out.
LEMMA ListSpinnerKept ==
    ASSUME ListSpins,
           \A s \in Slot : accountCalls[s].kind = "list" /\ accountCalls[s].mine
                               => SameCall(s),
           accountsPage'.loading => accountsPage.loading
    PROVE  ListSpins'
  BY DEF ListSpins, Out, SameCall

\* No test is sent or answered: its spinner goes on standing for it.
LEMMA TestSpinnerKept ==
    ASSUME TestSpins,
           \A s \in Slot : accountCalls[s].kind = "test" /\ accountCalls[s].mine
                               => SameCall(s),
           accountsPage'.testing # 0 => /\ accountsPage'.testing = accountsPage.testing
                                        /\ accountsPage'.tested = accountsPage.tested
    PROVE  TestSpins'
  BY DEF TestSpins, Out, SameCall

\* No initialisation is sent or answered: its spinner goes on standing for it.
LEMMA InitSpinnerKept ==
    ASSUME InitSpins,
           \A s \in Slot : accountCalls[s].kind = "init" /\ accountCalls[s].mine
                               => SameCall(s),
           accountsPage'.initializing # 0 =>
               /\ accountsPage'.initializing = accountsPage.initializing
               /\ accountsPage'.initialized = accountsPage.initialized
    PROVE  InitSpins'
  BY DEF InitSpins, Out, SameCall

\* No call that has a spinner is sent or answered.
LEMMA SpinnersKept ==
    ASSUME Spinning,
           \A s \in Slot : accountCalls[s].kind \in {"list", "test", "init"}
                               /\ accountCalls[s].mine => SameCall(s),
           accountsPage'.loading => accountsPage.loading,
           accountsPage'.testing # 0 => /\ accountsPage'.testing = accountsPage.testing
                                        /\ accountsPage'.tested = accountsPage.tested,
           accountsPage'.initializing # 0 =>
               /\ accountsPage'.initializing = accountsPage.initializing
               /\ accountsPage'.initialized = accountsPage.initialized
    PROVE  Spinning'
  BY ListSpinnerKept, TestSpinnerKept, InitSpinnerKept DEF Spinning

\* The submissions of the open form stay what they are.
LEMMA OwnersKept ==
    ASSUME Owning,
           \A s \in Slot : /\ accountCalls'[s].own = accountCalls[s].own
                           /\ accountCalls[s].own => SameCall(s),
           accountsPage'.form = accountsPage.form,
           accountsPage'.submitting = accountsPage.submitting
    PROVE  Owning'
  BY DEF Owning, FormsCall, SameCall, FormKind

\* No submission is the form's.
LEMMA NoOwners ==
    ASSUME \A s \in Slot : ~accountCalls'[s].own,
           ~accountsPage'.submitting
    PROVE  Owning'
  BY DEF Owning

FlagsInv == AccountsInv /\ Spinning /\ Owning

\* Which slot a call is sent from, and that nothing in it is overwritten.
LEMMA SentFromFreeSlot ==
    ASSUME FlagsInv, NEW call, SendAccountCall(call)
    PROVE  \E s \in Slot :
               /\ accountCalls[s].kind = "idle" /\ ~accountCalls[s].own
               /\ accountCalls'[s] = call
               /\ \A r \in Slot : r # s => accountCalls'[r] = accountCalls[r]
<1>1. PICK s \in Free(accountCalls) : accountCalls' = [accountCalls EXCEPT ![s] = call]
  BY DEF SendAccountCall
<1>2. s \in Slot /\ accountCalls[s].kind = "idle"
  BY <1>1 DEF Free
<1>3. ~accountCalls[s].own
  BY <1>2 DEF FlagsInv, Owning, FormsCall, FormKind
<1>4. accountCalls \in [Slot -> AccountCall]
  BY DEF FlagsInv, AccountsInv, AccountsTypeOK
<1> QED
  BY <1>1, <1>2, <1>3, <1>4

\* The page sends a call that is no submission: what was out still is.
LEMMA SentBeside ==
    ASSUME FlagsInv, NEW call, ~call.own, SendAccountCall(call)
    PROVE  /\ \A s \in Slot : /\ accountCalls'[s].own = accountCalls[s].own
                              /\ accountCalls[s].kind # "idle" => SameCall(s)
                              /\ accountCalls[s].own => SameCall(s)
           /\ \E s \in Slot : accountCalls'[s] = call
<1>1. PICK s \in Slot :
          /\ accountCalls[s].kind = "idle" /\ ~accountCalls[s].own
          /\ accountCalls'[s] = call
          /\ \A r \in Slot : r # s => accountCalls'[r] = accountCalls[r]
  BY SentFromFreeSlot
<1>2. accountCalls \in [Slot -> AccountCall]
  BY DEF FlagsInv, AccountsInv, AccountsTypeOK
<1>3. accountCalls[s].own = FALSE /\ accountCalls'[s].own = FALSE
  <2>1. accountCalls[s].own \in BOOLEAN
    BY <1>2 DEF AccountCall
  <2> QED
    BY <1>1, <2>1
<1> QED
  BY <1>1, <1>2, <1>3 DEF SameCall

\* The acts on the cards and the action bar.
LEMMA FlagsOfCardActs ==
    ASSUME FlagsInv,
           RefreshAccounts \/ \E a \in Account : \/ ToggleEnable(a)
                                                 \/ TestAccount(a)
                                                 \/ InitializeAccount(a)
                                                 \/ ResetAccountQuota(a)
                                                 \/ DeleteAccount(a)
    PROVE  (Spinning /\ Owning)'
<1>t. /\ accountsPage \in AccountsPageState /\ accountCalls \in [Slot -> AccountCall]
      /\ Spinning /\ Owning
  BY DEF FlagsInv, AccountsInv, AccountsTypeOK
<1>a. /\ "list" \in AccountKinds /\ "toggle" \in AccountKinds /\ "test" \in AccountKinds
      /\ "init" \in AccountKinds /\ "reset" \in AccountKinds /\ "delete" \in AccountKinds
      /\ \A a \in Account : a \in 0 .. MaxAccounts
  BY AccountsAssumption DEF AccountKinds, Account
<1>1. CASE RefreshAccounts
  <2>1. /\ accountsPage' = [accountsPage EXCEPT !.loading = TRUE]
        /\ SendAccountCall(AskList)
    BY <1>1 DEF RefreshAccounts
  <2>2. AskList.kind = "list" /\ AskList.mine /\ ~AskList.own
    BY AskedList
  <2>3. /\ \A s \in Slot : /\ accountCalls'[s].own = accountCalls[s].own
                           /\ accountCalls[s].kind # "idle" => SameCall(s)
                           /\ accountCalls[s].own => SameCall(s)
        /\ \E s \in Slot : accountCalls'[s] = AskList
    BY <2>1, <2>2, SentBeside
  <2>4. ListSpins'
    BY <2>2, <2>3 DEF ListSpins, Out
  <2>5. Owning'
    BY <1>t, <2>1, <2>3, OwnersKept DEF AccountsPageState
  <2> QED
    BY <1>t, <2>1, <2>3, <2>4, <2>5, TestSpinnerKept, InitSpinnerKept
       DEF Spinning, AccountsPageState
<1>2. ASSUME NEW a \in Account, ToggleEnable(a)
      PROVE  (Spinning /\ Owning)'
  <2> DEFINE call == [AccountAsk("toggle", a) EXCEPT
                          !.draft = [EmptyDraft EXCEPT !.enabled = ~accountsPage.view[a].enabled]]
  <2>1. SendAccountCall(call) /\ accountsPage' = accountsPage
    BY <1>2 DEF ToggleEnable
  <2>2. ~call.own
    BY <1>a, AskedCall DEF AccountCall
  <2> HIDE DEF call
  <2> QED
    BY <1>t, <2>1, <2>2, SentBeside, SpinnersKept, OwnersKept
<1>3. ASSUME NEW a \in Account, ResetAccountQuota(a)
      PROVE  (Spinning /\ Owning)'
  <2>1. SendAccountCall(AccountAsk("reset", a)) /\ accountsPage' = accountsPage
    BY <1>3 DEF ResetAccountQuota
  <2>2. ~AccountAsk("reset", a).own
    BY <1>a, AskedCall
  <2> QED
    BY <1>t, <2>1, <2>2, SentBeside, SpinnersKept, OwnersKept
<1>4. ASSUME NEW a \in Account, DeleteAccount(a)
      PROVE  (Spinning /\ Owning)'
  <2>1. SendAccountCall(AccountAsk("delete", a)) /\ accountsPage' = accountsPage
    BY <1>4 DEF DeleteAccount
  <2>2. ~AccountAsk("delete", a).own
    BY <1>a, AskedCall
  <2> QED
    BY <1>t, <2>1, <2>2, SentBeside, SpinnersKept, OwnersKept
<1>5. ASSUME NEW a \in Account, TestAccount(a)
      PROVE  (Spinning /\ Owning)'
  <2> DEFINE call == AccountAsk("test", a)
  <2>1. /\ SendAccountCall(call)
        /\ accountsPage' = [accountsPage EXCEPT !.testing = a, !.tested = 0]
    BY <1>5 DEF TestAccount
  <2>2. call.kind = "test" /\ call.mine /\ ~call.own /\ call.id = a
    BY <1>a, AskedCall
  <2> HIDE DEF call
  <2>3. /\ \A s \in Slot : /\ accountCalls'[s].own = accountCalls[s].own
                           /\ accountCalls[s].kind # "idle" => SameCall(s)
                           /\ accountCalls[s].own => SameCall(s)
        /\ \E s \in Slot : accountCalls'[s] = call
    BY <2>1, <2>2, SentBeside
  <2>4. Owning'
    BY <1>t, <2>1, <2>3, OwnersKept DEF AccountsPageState
  <2>5. TestSpins'
    BY <1>t, <2>1, <2>2, <2>3 DEF TestSpins, Out, AccountsPageState
  <2> QED
    BY <1>t, <2>1, <2>3, <2>4, <2>5, ListSpinnerKept, InitSpinnerKept
       DEF Spinning, AccountsPageState
<1>6. ASSUME NEW a \in Account, InitializeAccount(a)
      PROVE  (Spinning /\ Owning)'
  <2> DEFINE call == AccountAsk("init", a)
  <2>1. /\ SendAccountCall(call)
        /\ accountsPage' = [accountsPage EXCEPT !.initializing = a, !.initialized = 0]
    BY <1>6 DEF InitializeAccount
  <2>2. call.kind = "init" /\ call.mine /\ ~call.own /\ call.id = a
    BY <1>a, AskedCall
  <2> HIDE DEF call
  <2>3. /\ \A s \in Slot : /\ accountCalls'[s].own = accountCalls[s].own
                           /\ accountCalls[s].kind # "idle" => SameCall(s)
                           /\ accountCalls[s].own => SameCall(s)
        /\ \E s \in Slot : accountCalls'[s] = call
    BY <2>1, <2>2, SentBeside
  <2>4. Owning'
    BY <1>t, <2>1, <2>3, OwnersKept DEF AccountsPageState
  <2>5. InitSpins'
    BY <1>t, <2>1, <2>2, <2>3 DEF InitSpins, Out, AccountsPageState
  <2> QED
    BY <1>t, <2>1, <2>3, <2>4, <2>5, ListSpinnerKept, TestSpinnerKept
       DEF Spinning, AccountsPageState
<1> QED
  BY <1>1, <1>2, <1>3, <1>4, <1>5, <1>6

\* The form is opened, edited, submitted or closed.
LEMMA FlagsOfFormActs ==
    ASSUME FlagsInv,
           \/ \E form \in 0 .. MaxAccounts : OpenForm(form)
           \/ \E draft \in Draft : EditForm(draft)
           \/ SubmitForm
           \/ CloseForm
    PROVE  (Spinning /\ Owning)'
<1>t. /\ accountsPage \in AccountsPageState /\ accountCalls \in [Slot -> AccountCall]
      /\ Spinning /\ Owning
  BY DEF FlagsInv, AccountsInv, AccountsTypeOK
<1>1. ASSUME NEW form \in 0 .. MaxAccounts, OpenForm(form)
      PROVE  (Spinning /\ Owning)'
  <2>1. /\ accountsPage.form = NoForm /\ accountCalls' = accountCalls
        /\ accountsPage'.submitting = accountsPage.submitting
        /\ accountsPage'.loading = accountsPage.loading
        /\ accountsPage'.testing = accountsPage.testing
        /\ accountsPage'.tested = accountsPage.tested
        /\ accountsPage'.initializing = accountsPage.initializing
        /\ accountsPage'.initialized = accountsPage.initialized
    BY <1>1, <1>t DEF OpenForm, Cards, AccountsPageState
  <2>2. \A s \in Slot : accountCalls[s].id \in 0 .. MaxAccounts
    BY <1>t DEF AccountCall
  <2>3. \A s \in Slot : ~accountCalls[s].own
    BY <1>t, <2>1, <2>2, AccountsAssumption DEF Owning, FormsCall, NoForm
  <2>4. ~accountsPage.submitting
    BY <1>t, <2>3 DEF Owning
  <2> QED
    BY <1>t, <2>1, <2>3, <2>4, SpinnersKept, NoOwners DEF SameCall
<1>2. ASSUME NEW draft \in Draft, EditForm(draft)
      PROVE  (Spinning /\ Owning)'
  <2>1. /\ accountCalls' = accountCalls
        /\ accountsPage' = [accountsPage EXCEPT !.draft = draft]
    BY <1>2 DEF EditForm
  <2> QED
    BY <1>t, <2>1, SpinnersKept, OwnersKept DEF SameCall, AccountsPageState
<1>3. CASE SubmitForm
  <2> DEFINE kind == IF accountsPage.form = NewForm THEN "create" ELSE "edit"
             asked == AccountAsk(kind, accountsPage.form)
             call == [asked EXCEPT !.own = TRUE, !.draft = accountsPage.draft]
  <2>1. /\ SendAccountCall(call) /\ ~accountsPage.submitting
        /\ accountsPage.form # NoForm
        /\ accountsPage' = [accountsPage EXCEPT !.submitting = TRUE]
    BY <1>3 DEF SubmitForm
  <2>2. kind \in AccountKinds /\ accountsPage.form \in 0 .. MaxAccounts
    BY <1>t, <2>1, AccountsAssumption DEF AccountKinds, AccountsPageState, NoForm
  <2>3. asked \in AccountCall /\ asked.kind = kind /\ asked.mine /\ asked.id = accountsPage.form
    BY <2>2, AskedCall
  <2> HIDE DEF asked
  <2>4. call.own /\ call.kind = kind /\ call.mine /\ call.id = accountsPage.form
    BY <2>3 DEF AccountCall
  <2>k. kind = FormKind
    BY DEF FormKind
  <2> HIDE DEF call, kind
  <2>5. PICK s \in Slot :
            /\ accountCalls[s].kind = "idle" /\ ~accountCalls[s].own
            /\ accountCalls'[s] = call
            /\ \A r \in Slot : r # s => accountCalls'[r] = accountCalls[r]
    BY <2>1, SentFromFreeSlot
  <2>6. \A r \in Slot : ~accountCalls[r].own
    BY <1>t, <2>1 DEF Owning
  <2>7. accountsPage'.form = accountsPage.form /\ accountsPage'.submitting
    BY <1>t, <2>1 DEF AccountsPageState
  <2>8. Owning'
    BY <2>4, <2>5, <2>6, <2>7, <2>k DEF Owning, FormsCall, FormKind
  <2>9. \A r \in Slot : accountCalls[r].kind # "idle" => SameCall(r)
    BY <2>5 DEF SameCall
  <2>10. Spinning'
    BY <1>t, <2>1, <2>9, SpinnersKept DEF AccountsPageState
  <2> QED
    BY <2>8, <2>10
<1>4. CASE CloseForm
  <2>1. /\ accountsPage' = WithoutForm(accountsPage)
        /\ accountCalls' = Disowned(accountCalls)
    BY <1>4 DEF CloseForm
  <2>2. \A s \in Slot : SameCall(s) /\ ~accountCalls'[s].own
    BY <1>t, <2>1 DEF SameCall, Disowned, AccountCall
  <2>3. /\ ~accountsPage'.submitting
        /\ accountsPage'.loading = accountsPage.loading
        /\ accountsPage'.testing = accountsPage.testing
        /\ accountsPage'.tested = accountsPage.tested
        /\ accountsPage'.initializing = accountsPage.initializing
        /\ accountsPage'.initialized = accountsPage.initialized
    BY <1>t, <2>1 DEF WithoutForm, AccountsPageState
  <2> QED
    BY <1>t, <2>2, <2>3, SpinnersKept, NoOwners
<1> QED
  BY <1>1, <1>2, <1>3, <1>4

\* The page is left, or opened again.
LEMMA FlagsOfComingAndGoing ==
    ASSUME FlagsInv, LeaveAccounts \/ ReturnToAccounts
    PROVE  (Spinning /\ Owning)'
<1>t. /\ accountsPage \in AccountsPageState /\ accountCalls \in [Slot -> AccountCall]
      /\ GoneIsEmpty /\ Spinning /\ Owning
  BY DEF FlagsInv, AccountsInv, AccountsTypeOK
<1>1. CASE LeaveAccounts
  <2>1. /\ accountsPage.form = NoForm
        /\ accountCalls' = Orphaned(accountCalls)
        /\ accountsPage' = [FreshAccountsPage EXCEPT !.mounted = FALSE, !.loading = FALSE]
    BY <1>1 DEF LeaveAccounts, Cards
  <2>2. \A s \in Slot : accountCalls[s].id \in 0 .. MaxAccounts
    BY <1>t DEF AccountCall
  <2>3. \A s \in Slot : ~accountCalls[s].own
    BY <1>t, <2>1, <2>2, AccountsAssumption DEF Owning, FormsCall, NoForm
  <2>4. \A s \in Slot : ~accountCalls'[s].own
    BY <1>t, <2>1, <2>3 DEF Orphaned, AccountCall
  <2>5. /\ ~accountsPage'.loading /\ accountsPage'.testing = 0
        /\ accountsPage'.initializing = 0 /\ ~accountsPage'.submitting
    BY <2>1 DEF FreshAccountsPage
  <2> QED
    BY <2>4, <2>5, NoOwners DEF Spinning, ListSpins, TestSpins, InitSpins
<1>2. CASE ReturnToAccounts
  <2>1. /\ ~accountsPage.mounted /\ accountsPage' = FreshAccountsPage
        /\ SendAccountCall(AskList)
    BY <1>2 DEF ReturnToAccounts
  <2>2. \A s \in Slot : ~accountCalls[s].own
    BY <1>t, <2>1 DEF GoneIsEmpty, Owning, FormsCall
  <2>3. AskList.kind = "list" /\ AskList.mine /\ ~AskList.own
    BY AskedList
  <2>4. /\ \A s \in Slot : accountCalls'[s].own = accountCalls[s].own
        /\ \E s \in Slot : accountCalls'[s] = AskList
    BY <2>1, <2>3, SentBeside
  <2>5. /\ accountsPage'.testing = 0
        /\ accountsPage'.initializing = 0 /\ ~accountsPage'.submitting
    BY <2>1 DEF FreshAccountsPage
  <2>6. ListSpins'
    BY <2>3, <2>4 DEF ListSpins, Out
  <2> QED
    BY <2>2, <2>4, <2>5, <2>6, NoOwners DEF Spinning, TestSpins, InitSpins
<1> QED
  BY <1>1, <1>2

\* What the server does changes no flag and leaves each call what it is.
LEMMA FlagsOfServer ==
    ASSUME FlagsInv,
           \/ \E s \in Slot : ServeList(s) \/ ServeUpdate(s) \/ ServeCreate(s)
           \/ \E a \in Account : ChangeElsewhere(a)
    PROVE  (Spinning /\ Owning)'
<1>t. /\ accountCalls \in [Slot -> AccountCall] /\ Spinning /\ Owning
  BY DEF FlagsInv, AccountsInv, AccountsTypeOK
<1>1. accountsPage' = accountsPage
  BY DEF ServeList, ServeUpdate, ServeCreate, ChangeElsewhere
<1>2. \/ accountCalls' = accountCalls
      \/ \E s \in Slot, state \in CallState, list \in AccountList \union {pool} :
             Executed(s, state, list)
  BY StartValues, ZenonT(60)
  DEF ServeList, ServeUpdate, ServeCreate, ChangeElsewhere, CallState
<1>3. \A r \in Slot : SameCall(r) /\ accountCalls'[r].own = accountCalls[r].own
  <2>1. ASSUME NEW s \in Slot, NEW state, NEW list, Executed(s, state, list)
        PROVE  \A r \in Slot : SameCall(r) /\ accountCalls'[r].own = accountCalls[r].own
    <3>1. accountCalls' = [accountCalls EXCEPT
              ![s] = [accountCalls[s] EXCEPT !.state = state, !.list = list]]
      BY <2>1 DEF Executed
    <3> QED
      BY <1>t, <3>1 DEF SameCall, AccountCall
  <2>2. CASE accountCalls' = accountCalls
    BY <2>2 DEF SameCall
  <2> QED
    BY <1>2, <2>1, <2>2
<1> QED
  BY <1>t, <1>1, <1>3, SpinnersKept, OwnersKept

\* A handler ends: its call is gone, the others are out as before.
LEMMA HandlerEnds ==
    ASSUME FlagsInv, NEW s \in Slot, NEW p, EndAccountCall(s, p)
    PROVE  /\ \A r \in Slot : r # s => accountCalls'[r] = accountCalls[r]
           /\ ~accountCalls'[s].own
           /\ accountsPage' = IF accountCalls[s].mine THEN p ELSE accountsPage
  BY DEF EndAccountCall, FlagsInv, AccountsInv, AccountsTypeOK, NoAccountCall

\* A handler asks for the list: this call takes the place of its own.
LEMMA HandlerReloads ==
    ASSUME FlagsInv, NEW s \in Slot, NEW p, Reload(s, p)
    PROVE  /\ \A r \in Slot : r # s => accountCalls'[r] = accountCalls[r]
           /\ accountCalls'[s].kind = "list" /\ ~accountCalls'[s].own
           /\ accountCalls'[s].mine = accountCalls[s].mine
           /\ accountsPage' = IF accountCalls[s].mine THEN [p EXCEPT !.loading = TRUE]
                              ELSE accountsPage
<1>1. accountCalls \in [Slot -> AccountCall] /\ AskList \in AccountCall
  BY AskedList DEF FlagsInv, AccountsInv, AccountsTypeOK
<1> QED
  BY <1>1, AskedList DEF Reload, AccountCall

\* After a call that no form sent, the form's submission is what it was.
LEMMA OwnersBeside ==
    ASSUME FlagsInv, NEW s \in Slot,
           accountCalls[s].kind \notin {"create", "edit"},
           \A r \in Slot : r # s => accountCalls'[r] = accountCalls[r],
           ~accountCalls'[s].own,
           accountsPage'.form = accountsPage.form,
           accountsPage'.submitting = accountsPage.submitting
    PROVE  Owning'
<1>1. ~accountCalls[s].own
  BY DEF FlagsInv, Owning, FormsCall, FormKind
<1> QED
  BY <1>1 DEF FlagsInv, Owning, FormsCall, FormKind

\* A list comes back: the spinner of the list stops.
LEMMA FlagsOfListing ==
    ASSUME FlagsInv, NEW s \in Slot, AccountsListed(s)
    PROVE  (Spinning /\ Owning)'
<1> DEFINE p == [accountsPage EXCEPT
                     !.loading = FALSE,
                     !.view = IF Succeeded(accountCalls, s) THEN accountCalls[s].list ELSE @]
<1>t. accountsPage \in AccountsPageState /\ Spinning /\ Owning
  BY DEF FlagsInv, AccountsInv, AccountsTypeOK
<1>1. accountCalls[s].kind = "list" /\ EndAccountCall(s, p)
  BY DEF AccountsListed, Back
<1>2. /\ \A r \in Slot : r # s => accountCalls'[r] = accountCalls[r]
      /\ ~accountCalls'[s].own
      /\ accountsPage' = IF accountCalls[s].mine THEN p ELSE accountsPage
  BY <1>1, HandlerEnds
<1>3. /\ ~p.loading /\ p.testing = accountsPage.testing /\ p.tested = accountsPage.tested
      /\ p.initializing = accountsPage.initializing
      /\ p.initialized = accountsPage.initialized
      /\ p.form = accountsPage.form /\ p.submitting = accountsPage.submitting
  BY <1>t DEF AccountsPageState
<1> HIDE DEF p
<1>4. Owning'
  BY <1>1, <1>2, <1>3, OwnersBeside
<1>5. TestSpins' /\ InitSpins'
  BY <1>t, <1>1, <1>2, <1>3, TestSpinnerKept, InitSpinnerKept DEF Spinning, SameCall
<1>6. ListSpins'
  <2>1. CASE accountCalls[s].mine
    BY <1>2, <1>3, <2>1 DEF ListSpins
  <2>2. CASE ~accountCalls[s].mine
    BY <1>t, <1>2, <2>2, ListSpinnerKept DEF Spinning, SameCall
  <2> QED
    BY <2>1, <2>2
<1> QED
  BY <1>4, <1>5, <1>6 DEF Spinning

\* A handler of the cards ends on page p, by which its own spinner, if it
\* has one, has stopped.
LEMMA FlagsOfHandler ==
    ASSUME FlagsInv, NEW s \in Slot, NEW p \in AccountsPageState,
           accountCalls[s].kind \notin {"create", "edit", "list"},
           EndAccountCall(s, p) \/ Reload(s, p),
           p.loading = accountsPage.loading,
           p.form = accountsPage.form, p.submitting = accountsPage.submitting,
           p.testing = 0 \/ /\ accountCalls[s].kind # "test"
                            /\ p.testing = accountsPage.testing
                            /\ p.tested = accountsPage.tested,
           p.initializing = 0 \/ /\ accountCalls[s].kind # "init"
                                 /\ p.initializing = accountsPage.initializing
                                 /\ p.initialized = accountsPage.initialized
    PROVE  (Spinning /\ Owning)'
<1>t. accountsPage \in AccountsPageState /\ Spinning /\ Owning
  BY DEF FlagsInv, AccountsInv, AccountsTypeOK
<1> DEFINE q == IF Reload(s, p) THEN [p EXCEPT !.loading = TRUE] ELSE p
<1>1. /\ \A r \in Slot : r # s => accountCalls'[r] = accountCalls[r]
      /\ ~accountCalls'[s].own
      /\ Reload(s, p) => /\ accountCalls'[s].kind = "list"
                         /\ accountCalls'[s].mine = accountCalls[s].mine
      /\ accountsPage' = IF accountCalls[s].mine THEN q ELSE accountsPage
  BY HandlerEnds, HandlerReloads
<1>2. /\ q.form = p.form /\ q.submitting = p.submitting
      /\ q.testing = p.testing /\ q.tested = p.tested
      /\ q.initializing = p.initializing /\ q.initialized = p.initialized
      /\ ~Reload(s, p) => q.loading = accountsPage.loading
  BY DEF AccountsPageState
<1> HIDE DEF q
<1>3. Owning'
  BY <1>1, <1>2, OwnersBeside
<1>4. CASE accountCalls[s].mine
  <2>1. accountsPage' = q
    BY <1>1, <1>4
  <2>2. TestSpins'
    <3>1. CASE p.testing = 0
      BY <1>2, <2>1, <3>1 DEF TestSpins
    <3>2. CASE accountCalls[s].kind # "test"
      BY <1>t, <1>1, <1>2, <2>1, <3>2, TestSpinnerKept DEF Spinning, SameCall
    <3> QED
      BY <3>1, <3>2
  <2>3. InitSpins'
    <3>1. CASE p.initializing = 0
      BY <1>2, <2>1, <3>1 DEF InitSpins
    <3>2. CASE accountCalls[s].kind # "init"
      BY <1>t, <1>1, <1>2, <2>1, <3>2, InitSpinnerKept DEF Spinning, SameCall
    <3> QED
      BY <3>1, <3>2
  <2>4. CASE Reload(s, p)
    <3>1. ListSpins'
      BY <1>1, <1>4, <2>4 DEF ListSpins, Out
    <3> QED
      BY <1>3, <2>2, <2>3, <3>1 DEF Spinning
  <2>5. CASE ~Reload(s, p)
    <3>1. ListSpins'
      BY <1>t, <1>1, <1>2, <2>1, <2>5, ListSpinnerKept DEF Spinning, SameCall
    <3> QED
      BY <1>3, <2>2, <2>3, <3>1 DEF Spinning
  <2> QED
    BY <2>4, <2>5
<1>5. CASE ~accountCalls[s].mine
  BY <1>t, <1>1, <1>3, <1>5, SpinnersKept DEF SameCall
<1> QED
  BY <1>4, <1>5

\* The answers to the cards.
LEMMA FlagsOfCardAnswers ==
    ASSUME FlagsInv, NEW s \in Slot,
           \/ Toggled(s) \/ QuotaReset(s) \/ AccountDeleted(s)
           \/ Tested(s) \/ Initialized(s)
    PROVE  (Spinning /\ Owning)'
<1>t. /\ accountsPage \in AccountsPageState
      /\ accountCalls[s].id \in 0 .. MaxAccounts /\ 0 \in 0 .. MaxAccounts
  BY AccountsAssumption DEF FlagsInv, AccountsInv, AccountsTypeOK, AccountCall
<1>1. CASE Toggled(s) \/ QuotaReset(s) \/ AccountDeleted(s)
  <2>1. /\ accountCalls[s].kind \in {"toggle", "reset", "delete"}
        /\ EndAccountCall(s, accountsPage) \/ Reload(s, accountsPage)
    BY <1>1 DEF Toggled, QuotaReset, AccountDeleted, Back
  <2> QED
    BY <1>t, <2>1, FlagsOfHandler
<1>2. CASE Tested(s)
  <2> DEFINE p == [accountsPage EXCEPT !.tested = accountCalls[s].id, !.testing = 0]
  <2>1. /\ accountCalls[s].kind = "test"
        /\ EndAccountCall(s, p) \/ Reload(s, p)
    BY <1>2 DEF Tested, Back
  <2>2. /\ p \in AccountsPageState /\ p.testing = 0
        /\ p.loading = accountsPage.loading
        /\ p.form = accountsPage.form /\ p.submitting = accountsPage.submitting
        /\ p.initializing = accountsPage.initializing
        /\ p.initialized = accountsPage.initialized
    BY <1>t DEF AccountsPageState
  <2> HIDE DEF p
  <2> QED
    BY <2>1, <2>2, FlagsOfHandler
<1>3. CASE Initialized(s)
  <2> DEFINE p == [accountsPage EXCEPT !.initialized = accountCalls[s].id,
                                       !.initializing = 0]
  <2>1. /\ accountCalls[s].kind = "init"
        /\ EndAccountCall(s, p) \/ Reload(s, p)
    BY <1>3 DEF Initialized, Back
  <2>2. /\ p \in AccountsPageState /\ p.initializing = 0
        /\ p.loading = accountsPage.loading
        /\ p.form = accountsPage.form /\ p.submitting = accountsPage.submitting
        /\ p.testing = accountsPage.testing /\ p.tested = accountsPage.tested
    BY <1>t DEF AccountsPageState
  <2> HIDE DEF p
  <2> QED
    BY <2>1, <2>2, FlagsOfHandler
<1> QED
  BY <1>1, <1>2, <1>3

\* The answer to a form: it closes the form that is open, or stops the
\* spinner of the form that sent it.
LEMMA FlagsOfFormAnswers ==
    ASSUME FlagsInv, NEW s \in Slot, Saved(s)
    PROVE  (Spinning /\ Owning)'
<1>t. /\ accountsPage \in AccountsPageState /\ accountCalls \in [Slot -> AccountCall]
      /\ Spinning /\ Owning
  BY DEF FlagsInv, AccountsInv, AccountsTypeOK
<1>k. accountCalls[s].kind \in {"edit", "create"}
  BY DEF Saved, Back
<1>1. CASE Succeeded(accountCalls, s) /\ accountCalls[s].mine
  <2> DEFINE asked == [AskList EXCEPT !.mine = accountCalls[s].mine]
  <2>1. /\ accountCalls' = [Disowned(accountCalls) EXCEPT ![s] = asked]
        /\ accountsPage' = [WithoutForm(accountsPage) EXCEPT !.loading = TRUE]
    BY <1>1 DEF Saved
  <2>2. asked.kind = "list" /\ asked.mine /\ ~asked.own
    BY <1>1, AskedList DEF AccountCall
  <2> HIDE DEF asked
  <2>3. /\ accountCalls'[s] = asked
        /\ \A r \in Slot : r # s => accountCalls'[r] = [accountCalls[r] EXCEPT !.own = FALSE]
    BY <2>1 DEF Disowned
  <2>4. \A r \in Slot : r # s => SameCall(r) /\ ~accountCalls'[r].own
    BY <1>t, <2>3, ZenonT(60) DEF SameCall, AccountCall
  <2>5. /\ ~accountsPage'.submitting
        /\ accountsPage'.testing = accountsPage.testing
        /\ accountsPage'.tested = accountsPage.tested
        /\ accountsPage'.initializing = accountsPage.initializing
        /\ accountsPage'.initialized = accountsPage.initialized
    BY <1>t, <2>1 DEF WithoutForm, AccountsPageState
  <2>6. Owning'
    BY <2>2, <2>3, <2>4, <2>5, NoOwners
  <2>7. ListSpins'
    BY <2>2, <2>3 DEF ListSpins, Out
  <2>8. TestSpins' /\ InitSpins'
    BY <1>t, <1>k, <2>4, <2>5, TestSpinnerKept, InitSpinnerKept DEF Spinning
  <2> QED
    BY <2>6, <2>7, <2>8 DEF Spinning
<1>2. CASE /\ ~(Succeeded(accountCalls, s) /\ accountCalls[s].mine)
           /\ ~(~Succeeded(accountCalls, s) /\ accountCalls[s].own)
  <2>1. ~accountCalls[s].own
    BY <1>t, <1>2 DEF Owning, FormsCall
  <2>2. /\ accountsPage' = accountsPage
        /\ \A r \in Slot : r # s => accountCalls'[r] = accountCalls[r]
        /\ ~accountCalls'[s].own
    <3>1. CASE Succeeded(accountCalls, s)
      <4> DEFINE asked == [AskList EXCEPT !.mine = accountCalls[s].mine]
      <4>1. /\ accountCalls' = [accountCalls EXCEPT ![s] = asked]
            /\ accountsPage' = accountsPage
        BY <1>2, <3>1 DEF Saved
      <4>2. ~asked.own
        BY AskedList DEF AccountCall
      <4> HIDE DEF asked
      <4> QED
        BY <1>t, <4>1, <4>2
    <3>2. CASE ~Succeeded(accountCalls, s)
      <4>1. EndAccountCall(s, accountsPage)
        BY <2>1, <3>2 DEF Saved
      <4> QED
        BY <4>1, HandlerEnds
    <3> QED
      BY <3>1, <3>2
  <2>3. \A r \in Slot : r # s => SameCall(r)
    BY <2>2 DEF SameCall
  <2>4. Spinning'
    BY <1>t, <1>k, <2>2, <2>3, SpinnersKept
  <2>5. Owning'
    BY <1>t, <2>1, <2>2 DEF Owning, FormsCall, FormKind
  <2> QED
    BY <2>4, <2>5
<1>3. CASE ~Succeeded(accountCalls, s) /\ accountCalls[s].own
  <2>1. EndAccountCall(s, [accountsPage EXCEPT !.submitting = FALSE])
    BY <1>3 DEF Saved
  <2>2. /\ \A r \in Slot : r # s => accountCalls'[r] = accountCalls[r]
        /\ ~accountCalls'[s].own
        /\ \/ accountsPage' = [accountsPage EXCEPT !.submitting = FALSE]
           \/ accountsPage' = accountsPage /\ ~accountCalls[s].mine
    BY <2>1, HandlerEnds
  <2>3. accountsPage' = [accountsPage EXCEPT !.submitting = FALSE]
    BY <1>t, <1>3, <2>2 DEF Owning, FormsCall
  <2>4. \A r \in Slot : ~accountCalls'[r].own
    BY <1>t, <1>3, <2>2 DEF Owning
  <2>5. Owning'
    BY <1>t, <2>3, <2>4, NoOwners DEF AccountsPageState
  <2>6. Spinning'
    BY <1>t, <1>k, <2>2, <2>3, SpinnersKept DEF SameCall, AccountsPageState
  <2> QED
    BY <2>5, <2>6
<1> QED
  BY <1>1, <1>2, <1>3

\* Every step keeps the flags and the calls together.
LEMMA FlagsStep ==
    ASSUME FlagsInv, [AccountsNext]_accountsVars
    PROVE  FlagsInv'
<1>i. AccountsInv'
  BY AccountsStep DEF FlagsInv, Mapped
<1>1. CASE AccountsNext
  <2>1. (Spinning /\ Owning)'
    BY <1>1, FlagsOfCardActs, FlagsOfFormActs, FlagsOfComingAndGoing, FlagsOfServer,
       FlagsOfListing, FlagsOfCardAnswers, FlagsOfFormAnswers
       DEF AccountsNext, OnAccount, AccountCallStep
  <2> QED
    BY <1>i, <2>1 DEF FlagsInv
<1>2. CASE UNCHANGED accountsVars
  BY <1>i, <1>2 DEF accountsVars, FlagsInv, Spinning, ListSpins, TestSpins, InitSpins,
                    Owning, FormsCall, FormKind, Out
<1> QED
  BY <1>1, <1>2

\* The page starts with its spinner and the call it stands for.
LEMMA FlagsStart ==
    ASSUME AccountsInit
    PROVE  FlagsInv
<1>1. AccountsInv
  BY AccountsStart
<1>2. 1 \in Slot /\ accountCalls[1].kind = "list" /\ accountCalls[1].mine
  BY CallsAssumption, AskedList DEF AccountsInit, Slot
<1>3. \A s \in Slot : ~accountCalls[s].own
  BY AskedList DEF AccountsInit, NoAccountCall
<1>4. /\ accountsPage.testing = 0 /\ accountsPage.initializing = 0
      /\ ~accountsPage.submitting
  BY DEF AccountsInit, FreshAccountsPage
<1> QED
  BY <1>1, <1>2, <1>3, <1>4
     DEF FlagsInv, Spinning, ListSpins, TestSpins, InitSpins, Owning, Out

\* Every spinner and disabled button of the page stands for a call that is
\* still out, and the open form has one submission out at most: through any
\* number of accounts, forms that are closed while they submit, pages that
\* are left, and answers in any order.
THEOREM AccountFlagsHold == AccountsSpec => []AccountFlagsMatchCalls
<1>1. AccountsInit => FlagsInv
  BY FlagsStart
<1>2. FlagsInv /\ [AccountsNext]_accountsVars => FlagsInv'
  BY FlagsStep
<1>3. FlagsInv => AccountFlagsMatchCalls
  BY FlagsParts DEF FlagsInv
<1> QED
  BY <1>1, <1>2, <1>3, PTL DEF AccountsSpec

-----------------------------------------------------------------------------
(***************************************************************************)
(* The list.  While the page is steady, the list as it is now is shown, or *)
(* is on its way, or will be asked for: by a handler whose call went       *)
(* through.  The three cases are needed at once, because several calls are *)
(* out and a list may be asked for before another act takes effect.        *)
(***************************************************************************)
Coming(s) ==
    /\ accountCalls[s].mine
    /\ \/ accountCalls[s].kind = "list" /\ accountCalls[s].state = "sent"
       \/ accountCalls[s].kind \notin {"idle", "list"} /\ accountCalls[s].state = "ok"

ListRenewed ==
    \/ \E s \in Slot : Coming(s)
    \/ \E s \in Slot : Carries(accountCalls, s) /\ accountCalls[s].list = pool
    \/ accountsPage.view = pool /\ \A s \in Slot : ~Carries(accountCalls, s)

\* A call that has not failed, and is the page's if it changes an account.
Sound(s) ==
    /\ accountCalls[s].kind # "idle" => accountCalls[s].state # "error"
    /\ accountCalls[s].kind \notin {"idle", "list"} => accountCalls[s].mine

Renewing == (\A s \in Slot : Sound(s)) /\ (accountsPage.mounted => ListRenewed)

SteadyInv == AccountsInv /\ (steady => Renewing)

\* What the list depends on is as it was in every slot.
SameAnswer(s) ==
    SameCall(s) /\ accountCalls'[s].state = accountCalls[s].state
                /\ accountCalls'[s].list = accountCalls[s].list

\* Neither the calls, the table nor the screen change: a renewal stays due.
LEMMA RenewingKept ==
    ASSUME Renewing, \A s \in Slot : SameAnswer(s), pool' = pool,
           accountsPage'.view = accountsPage.view,
           accountsPage'.mounted = accountsPage.mounted
    PROVE  Renewing'
  BY DEF Renewing, Sound, ListRenewed, Coming, Carries, SameAnswer, SameCall

\* One slot has changed, to a sound call that brings the list.
LEMMA RenewingByCall ==
    ASSUME \A s \in Slot : Sound(s), NEW s \in Slot,
           \A r \in Slot : r # s => SameAnswer(r),
           Sound(s)',
           Coming(s)' \/ (Carries(accountCalls, s) /\ accountCalls[s].list = pool)'
    PROVE  Renewing'
  BY DEF Renewing, Sound, ListRenewed, SameAnswer, SameCall

\* An act sends a call: a listing, or one that has no effect yet.
LEMMA SteadySends ==
    ASSUME SteadyInv, steady, NEW call \in AccountCall, SendAccountCall(call),
           call.mine, call.state = "sent", pool' = pool,
           call.kind = "list" \/ /\ accountsPage'.view = accountsPage.view
                                 /\ accountsPage'.mounted = accountsPage.mounted
    PROVE  Renewing'
<1>1. PICK s \in Free(accountCalls) : accountCalls' = [accountCalls EXCEPT ![s] = call]
  BY DEF SendAccountCall
<1>2. s \in Slot /\ accountCalls[s].kind = "idle"
  BY <1>1 DEF Free
<1>3. accountCalls \in [Slot -> AccountCall] /\ Renewing
  BY DEF SteadyInv, AccountsInv, AccountsTypeOK
<1>4. /\ accountCalls'[s] = call
      /\ \A r \in Slot : r # s => accountCalls'[r] = accountCalls[r]
  BY <1>1, <1>2, <1>3
<1>5. \A r \in Slot : r # s => SameAnswer(r)
  BY <1>4 DEF SameAnswer, SameCall
<1>6. Sound(s)'
  BY <1>4 DEF Sound
<1>7. CASE call.kind = "list"
  <2>1. Coming(s)'
    BY <1>4, <1>7 DEF Coming
  <2> QED
    BY <1>2, <1>3, <1>5, <1>6, <2>1, RenewingByCall DEF Renewing
<1>8. CASE call.kind # "list"
  <2>1. /\ ~Coming(s) /\ ~Carries(accountCalls, s)
        /\ ~Coming(s)' /\ ~Carries(accountCalls', s)
    BY <1>2, <1>4, <1>8 DEF Coming, Carries
  <2>2. \A r \in Slot : Sound(r)'
    BY <1>3, <1>4, <1>6 DEF Renewing, Sound
  <2>3. ListRenewed => ListRenewed'
    BY <1>4, <1>8, <2>1 DEF ListRenewed, Coming, Carries
  <2> QED
    BY <1>3, <1>8, <2>2, <2>3 DEF Renewing
<1> QED
  BY <1>7, <1>8

\* The user's acts, the page's opening and its end.
LEMMA SteadyActs ==
    ASSUME SteadyInv, steady,
           \/ RefreshAccounts
           \/ \E a \in Account : \/ ToggleEnable(a)
                                 \/ TestAccount(a)
                                 \/ InitializeAccount(a)
                                 \/ ResetAccountQuota(a)
                                 \/ DeleteAccount(a)
           \/ SubmitForm
           \/ ReturnToAccounts
    PROVE  Renewing'
<1>t. accountsPage \in AccountsPageState
  BY DEF SteadyInv, AccountsInv, AccountsTypeOK
<1>a. /\ {"toggle", "test", "init", "reset", "delete", "create", "edit"} \subseteq AccountKinds
      /\ \A a \in Account : a \in 0 .. MaxAccounts
  BY AccountsAssumption DEF AccountKinds, Account
<1>1. CASE RefreshAccounts \/ ReturnToAccounts
  BY <1>1, AskedList, SteadySends DEF RefreshAccounts, ReturnToAccounts
<1>2. ASSUME NEW a \in Account, ToggleEnable(a)
      PROVE  Renewing'
  <2> DEFINE draft == [EmptyDraft EXCEPT !.enabled = ~accountsPage.view[a].enabled]
             call == [AccountAsk("toggle", a) EXCEPT !.draft = draft]
  <2>1. SendAccountCall(call) /\ accountsPage' = accountsPage /\ pool' = pool
    BY <1>2 DEF ToggleEnable
  <2>2. a \in Listed
    BY <1>2 DEF ToggleEnable
  <2>3. accountsPage.view[a].enabled \in BOOLEAN
    BY <2>2, ShownAccount DEF SteadyInv, AccountRow
  <2>4. draft \in Draft
    BY <2>3, StartValues DEF Draft
  <2>5. call \in AccountCall /\ call.mine /\ call.state = "sent"
    BY <1>a, <2>4, AskedCall DEF AccountCall
  <2> HIDE DEF call
  <2> QED
    BY <2>1, <2>5, SteadySends
<1>3. ASSUME NEW a \in Account, TestAccount(a) \/ InitializeAccount(a)
      PROVE  Renewing'
  <2>1. PICK kind \in {"test", "init"} : SendAccountCall(AccountAsk(kind, a))
    BY <1>3 DEF TestAccount, InitializeAccount
  <2>2. /\ pool' = pool /\ accountsPage'.view = accountsPage.view
        /\ accountsPage'.mounted = accountsPage.mounted
    BY <1>3, <1>t DEF TestAccount, InitializeAccount, AccountsPageState
  <2>3. kind \in AccountKinds
    BY <1>a
  <2> QED
    BY <1>a, <2>1, <2>2, <2>3, AskedCall, SteadySends
<1>4. ASSUME NEW a \in Account, ResetAccountQuota(a) \/ DeleteAccount(a)
      PROVE  Renewing'
  <2>1. PICK kind \in {"reset", "delete"} : SendAccountCall(AccountAsk(kind, a))
    BY <1>4 DEF ResetAccountQuota, DeleteAccount
  <2>2. pool' = pool /\ accountsPage' = accountsPage
    BY <1>4 DEF ResetAccountQuota, DeleteAccount
  <2>3. kind \in AccountKinds
    BY <1>a
  <2> QED
    BY <1>a, <2>1, <2>2, <2>3, AskedCall, SteadySends
<1>5. CASE SubmitForm
  <2> DEFINE kind == IF accountsPage.form = NewForm THEN "create" ELSE "edit"
             asked == AccountAsk(kind, accountsPage.form)
             call == [asked EXCEPT !.own = TRUE, !.draft = accountsPage.draft]
  <2>1. /\ SendAccountCall(call) /\ accountsPage.form # NoForm /\ pool' = pool
        /\ accountsPage' = [accountsPage EXCEPT !.submitting = TRUE]
    BY <1>5 DEF SubmitForm
  <2>2. kind \in AccountKinds /\ accountsPage.form \in 0 .. MaxAccounts
    BY <1>a, <1>t, <2>1, AccountsAssumption DEF AccountsPageState, NoForm
  <2>3. asked \in AccountCall /\ asked.mine /\ asked.state = "sent"
    BY <2>2, AskedCall
  <2> HIDE DEF asked
  <2>4. call \in AccountCall /\ call.mine /\ call.state = "sent"
    BY <1>t, <2>3 DEF AccountCall, AccountsPageState
  <2> HIDE DEF call
  <2>5. /\ accountsPage'.view = accountsPage.view
        /\ accountsPage'.mounted = accountsPage.mounted
    BY <1>t, <2>1 DEF AccountsPageState
  <2> QED
    BY <2>1, <2>4, <2>5, SteadySends
<1> QED
  BY <1>1, <1>2, <1>3, <1>4, <1>5

\* The acts that send nothing, and leaving the page.
LEMMA SteadyQuietActs ==
    ASSUME SteadyInv, steady, steady',
           \/ \E form \in 0 .. MaxAccounts : OpenForm(form)
           \/ \E draft \in Draft : EditForm(draft)
           \/ CloseForm
           \/ LeaveAccounts
    PROVE  Renewing'
<1>t. /\ accountsPage \in AccountsPageState /\ accountCalls \in [Slot -> AccountCall]
      /\ Renewing
  BY DEF SteadyInv, AccountsInv, AccountsTypeOK
<1>1. CASE (\E form \in 0 .. MaxAccounts : OpenForm(form)) \/ (\E draft \in Draft : EditForm(draft))
  <2>1. /\ accountCalls' = accountCalls /\ pool' = pool
        /\ accountsPage'.view = accountsPage.view
        /\ accountsPage'.mounted = accountsPage.mounted
    BY <1>t, <1>1 DEF OpenForm, EditForm, AccountsPageState
  <2> QED
    BY <1>t, <2>1, RenewingKept DEF SameAnswer, SameCall
<1>2. CASE CloseForm
  <2>1. /\ accountCalls' = Disowned(accountCalls) /\ pool' = pool
        /\ accountsPage'.view = accountsPage.view
        /\ accountsPage'.mounted = accountsPage.mounted
    BY <1>t, <1>2 DEF CloseForm, WithoutForm, AccountsPageState
  <2>2. \A s \in Slot : SameAnswer(s)
    BY <1>t, <2>1 DEF SameAnswer, SameCall, Disowned, AccountCall
  <2> QED
    BY <1>t, <2>1, <2>2, RenewingKept
<1>3. CASE LeaveAccounts
  <2>1. /\ accountCalls' = Orphaned(accountCalls)
        /\ \A s \in Slot : accountCalls[s].kind \in {"idle", "list"}
        /\ accountsPage' = [FreshAccountsPage EXCEPT !.mounted = FALSE, !.loading = FALSE]
    BY <1>3 DEF LeaveAccounts
  <2>2. \A s \in Slot : /\ accountCalls'[s].kind = accountCalls[s].kind
                        /\ accountCalls'[s].state = accountCalls[s].state
    BY <1>t, <2>1 DEF Orphaned, AccountCall
  <2>3. ~accountsPage'.mounted
    BY <2>1 DEF FreshAccountsPage
  <2> QED
    BY <1>t, <2>1, <2>2, <2>3 DEF Renewing, Sound
<1> QED
  BY <1>1, <1>2, <1>3

\* The server's part: a call that goes through is a promise of a list, or
\* brings the accounts as they are.
LEMMA SteadyServer ==
    ASSUME SteadyInv, steady, steady',
           \/ \E s \in Slot : ServeList(s) \/ ServeUpdate(s) \/ ServeCreate(s)
           \/ \E a \in Account : ChangeElsewhere(a)
    PROVE  Renewing'
<1>t. accountCalls \in [Slot -> AccountCall] /\ Renewing
  BY DEF SteadyInv, AccountsInv, AccountsTypeOK
<1>1. ASSUME NEW s \in Slot, NEW list, Executed(s, "ok", list),
             accountCalls[s].kind # "idle", accountsPage' = accountsPage,
             accountCalls[s].kind = "list" =>
                 accountCalls[s].state = "sent" /\ list = pool /\ pool' = pool
      PROVE  Renewing'
  <2>1. accountCalls' = [accountCalls EXCEPT
            ![s] = [accountCalls[s] EXCEPT !.state = "ok", !.list = list]]
    BY <1>1 DEF Executed
  <2>2. /\ \A r \in Slot : r # s => SameAnswer(r)
        /\ SameCall(s) /\ accountCalls'[s].state = "ok" /\ accountCalls'[s].list = list
    BY <1>t, <2>1 DEF SameAnswer, SameCall, AccountCall
  <2>3. Sound(s)'
    BY <1>t, <2>2 DEF Renewing, Sound, SameCall
  <2>4. CASE accountCalls[s].mine
    <3>1. Coming(s)' \/ (Carries(accountCalls, s) /\ accountCalls[s].list = pool)'
      BY <1>1, <2>2, <2>4 DEF Coming, Carries, SameCall
    <3> QED
      BY <1>t, <2>2, <2>3, <3>1, RenewingByCall DEF Renewing
  <2>5. CASE ~accountCalls[s].mine
    <3>1. accountCalls[s].kind = "list"
      BY <1>1, <1>t, <2>5 DEF Renewing, Sound
    <3>2. /\ ~Coming(s) /\ ~Carries(accountCalls, s)
          /\ ~Coming(s)' /\ ~Carries(accountCalls', s)
      BY <2>2, <2>5 DEF Coming, Carries, SameCall
    <3>3. ListRenewed => ListRenewed'
      BY <1>1, <2>2, <3>1, <3>2 DEF ListRenewed, Coming, Carries, SameAnswer, SameCall
    <3>4. \A r \in Slot : Sound(r)'
      BY <1>t, <2>2, <2>3 DEF Renewing, Sound, SameAnswer, SameCall
    <3> QED
      BY <1>t, <1>1, <3>3, <3>4 DEF Renewing
  <2> QED
    BY <2>4, <2>5
<1>2. ASSUME NEW s \in Slot, ServeList(s)
      PROVE  Renewing'
  BY <1>1, <1>2 DEF ServeList
<1>3. ASSUME NEW s \in Slot, ServeUpdate(s)
      PROVE  Renewing'
  BY <1>1, <1>3 DEF ServeUpdate, AccountKinds
<1>4. ASSUME NEW s \in Slot, ServeCreate(s)
      PROVE  Renewing'
  BY <1>1, <1>4 DEF ServeCreate
<1> QED
  BY <1>2, <1>3, <1>4 DEF ChangeElsewhere

\* A list comes back, the last one of those that were served: it is shown,
\* and the accounts are still what it says, unless another is coming.
LEMMA SteadyListing ==
    ASSUME SteadyInv, steady, steady', NEW s \in Slot, AccountsListed(s)
    PROVE  Renewing'
<1> DEFINE p == [accountsPage EXCEPT
                     !.loading = FALSE,
                     !.view = IF Succeeded(accountCalls, s) THEN accountCalls[s].list ELSE @]
<1>t. /\ accountsPage \in AccountsPageState /\ accountCalls \in [Slot -> AccountCall]
      /\ GoneIsEmpty /\ Renewing
  BY DEF SteadyInv, AccountsInv, AccountsTypeOK
<1>1. /\ accountCalls[s].kind = "list" /\ accountCalls[s].state # "sent"
      /\ EndAccountCall(s, p) /\ pool' = pool
      /\ \A r \in Out(accountCalls, "list") : r = s \/ accountCalls[r].state = "sent"
  BY DEF AccountsListed, Back, EndAccountCall
<1>2. accountCalls[s].state = "ok"
  BY <1>t, <1>1 DEF Renewing, Sound, AccountCall, CallState
<1>3. p.view = accountCalls[s].list /\ p.mounted = accountsPage.mounted
  BY <1>t, <1>2 DEF AccountsPageState, Succeeded
<1>4. /\ accountCalls' = [accountCalls EXCEPT ![s] = NoAccountCall]
      /\ accountsPage' = IF accountCalls[s].mine THEN p ELSE accountsPage
  BY <1>1 DEF EndAccountCall
<1> HIDE DEF p
<1>5. /\ \A r \in Slot : r # s => accountCalls'[r] = accountCalls[r]
      /\ accountCalls'[s].kind = "idle"
  BY <1>t, <1>4 DEF NoAccountCall
<1>6. \A r \in Slot : Sound(r)'
  BY <1>t, <1>5 DEF Renewing, Sound
<1>7. ~Coming(s) /\ ~Coming(s)' /\ ~Carries(accountCalls', s)
  BY <1>1, <1>5 DEF Coming, Carries
<1>8. ASSUME accountsPage'.mounted
      PROVE  ListRenewed'
  <2>1. ListRenewed
    BY <1>t, <1>3, <1>4, <1>8 DEF Renewing
  <2>2. CASE accountCalls[s].mine
    <3>1. CASE \E r \in Slot : Coming(r)
      BY <1>5, <1>7, <3>1 DEF ListRenewed, Coming
    <3>2. CASE ~ \E r \in Slot : Coming(r)
      <4>1. Carries(accountCalls, s)
        BY <1>1, <1>2, <2>2 DEF Carries
      <4>2. \A r \in Slot : Carries(accountCalls, r) => r = s
        BY <1>1 DEF Carries, Out
      <4>3. accountCalls[s].list = pool
        BY <2>1, <3>2, <4>1, <4>2 DEF ListRenewed
      <4>4. \A r \in Slot : ~Carries(accountCalls', r)
        BY <1>5, <1>7, <4>2 DEF Carries
      <4> QED
        BY <1>1, <1>3, <1>4, <2>2, <4>3, <4>4 DEF ListRenewed
    <3> QED
      BY <3>1, <3>2
  <2>3. CASE ~accountCalls[s].mine
    <3>1. ~Carries(accountCalls, s)
      BY <2>3 DEF Carries
    <3> QED
      BY <1>1, <1>4, <1>5, <1>7, <2>1, <2>3, <3>1 DEF ListRenewed, Coming, Carries
  <2> QED
    BY <2>2, <2>3
<1> QED
  BY <1>6, <1>8 DEF Renewing

\* A handler goes on after its call went through, and asks for the list.
LEMMA SteadyHandlers ==
    ASSUME SteadyInv, steady, NEW s \in Slot,
           \/ Toggled(s) \/ QuotaReset(s) \/ AccountDeleted(s)
           \/ Tested(s) \/ Initialized(s) \/ Saved(s)
    PROVE  Renewing'
<1>t. accountCalls \in [Slot -> AccountCall] /\ Renewing
  BY DEF SteadyInv, AccountsInv, AccountsTypeOK
<1>1. accountCalls[s].state # "sent" /\ accountCalls[s].kind \notin {"idle", "list"}
  BY DEF Toggled, QuotaReset, AccountDeleted, Tested, Initialized, Saved, Back
<1>2. Succeeded(accountCalls, s) /\ accountCalls[s].mine
  BY <1>t, <1>1 DEF Renewing, Sound, AccountCall, CallState, Succeeded
<1>3. \/ accountCalls' = [accountCalls EXCEPT
             ![s] = [AskList EXCEPT !.mine = accountCalls[s].mine]]
      \/ accountCalls' = [Disowned(accountCalls) EXCEPT
             ![s] = [AskList EXCEPT !.mine = accountCalls[s].mine]]
  BY <1>2 DEF Toggled, QuotaReset, AccountDeleted, Tested, Initialized, Saved, Reload
<1>4. /\ accountCalls'[s] = [AskList EXCEPT !.mine = accountCalls[s].mine]
      /\ \A r \in Slot : r # s => \/ accountCalls'[r] = accountCalls[r]
                                  \/ accountCalls'[r] = [accountCalls[r] EXCEPT !.own = FALSE]
  BY <1>t, <1>3 DEF Disowned
<1>5. ASSUME NEW r \in Slot, r # s
      PROVE  SameAnswer(r)
  <2>1. accountCalls[r] \in AccountCall
    BY <1>t
  <2>2. CASE accountCalls'[r] = accountCalls[r]
    BY <2>2 DEF SameAnswer, SameCall
  <2>3. CASE accountCalls'[r] = [accountCalls[r] EXCEPT !.own = FALSE]
    BY <2>1, <2>3 DEF SameAnswer, SameCall, AccountCall
  <2> QED
    BY <1>4, <1>5, <2>2, <2>3
<1>6. Coming(s)' /\ Sound(s)'
  BY <1>2, <1>4, AskedList DEF Coming, Sound, AccountCall
<1> QED
  BY <1>t, <1>5, <1>6, RenewingByCall DEF Renewing

\* SteadyInv is inductive.
LEMMA SteadyStep ==
    ASSUME SteadyInv, [AccountsNext]_accountsVars
    PROVE  SteadyInv'
<1>i. AccountsInv'
  BY AccountsStep DEF SteadyInv, Mapped
<1>1. ASSUME AccountsNext, steady'
      PROVE  Renewing'
  <2>1. steady
    BY <1>1 DEF AccountsNext, OnAccount, AccountCallStep, RefreshAccounts, ToggleEnable,
       TestAccount, InitializeAccount, ResetAccountQuota, DeleteAccount, ChangeElsewhere,
       OpenForm, EditForm, SubmitForm, CloseForm, LeaveAccounts, ReturnToAccounts,
       ServeList, ServeUpdate, ServeCreate, AccountsListed, Toggled, QuotaReset,
       AccountDeleted, Tested, Initialized, Saved, Reload
  <2> QED
    BY <1>1, <2>1, SteadyActs, SteadyQuietActs, SteadyServer, SteadyListing, SteadyHandlers
       DEF AccountsNext, OnAccount, AccountCallStep
<1>2. ASSUME UNCHANGED accountsVars, steady'
      PROVE  Renewing'
  BY <1>2, RenewingKept DEF accountsVars, SteadyInv, SameAnswer, SameCall
<1> QED
  BY <1>i, <1>1, <1>2 DEF SteadyInv

\* When everything has come back and nothing went wrong, the page shows the
\* accounts as they are: whatever was clicked in the meantime, and whatever
\* forms were closed over their submissions.
THEOREM SettledListIsCurrent == AccountsSpec => []SettledListCurrent
<1>1. AccountsInit => SteadyInv
  <2> SUFFICES ASSUME AccountsInit PROVE SteadyInv
    OBVIOUS
  <2>1. AccountsInv
    BY AccountsStart
  <2>2. /\ 1 \in Slot /\ accountCalls[1] = AskList
        /\ \A s \in Slot : accountCalls[s] \in {AskList, NoAccountCall}
    BY CallsAssumption DEF AccountsInit, Slot
  <2>3. Coming(1) /\ \A s \in Slot : Sound(s)
    BY <2>2, AskedList DEF Coming, Sound, NoAccountCall
  <2> QED
    BY <2>1, <2>2, <2>3 DEF SteadyInv, Renewing, ListRenewed
<1>2. SteadyInv /\ [AccountsNext]_accountsVars => SteadyInv'
  BY SteadyStep
<1>3. SteadyInv => SettledListCurrent
  BY DEF SteadyInv, Renewing, SettledListCurrent, ListRenewed, Coming, Carries, AllIdle
<1> QED
  BY <1>1, <1>2, <1>3, PTL DEF AccountsSpec
=============================================================================
