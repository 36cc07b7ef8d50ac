----------------------------- MODULE WebSession -----------------------------
(***************************************************************************)
(* The application around the pages (App.tsx, LoginPage.tsx,               *)
(* NewOfflineModal.tsx and the profile form of SettingsPage.tsx, in        *)
(* web/src): who it takes to be signed in, and the dialog that submits     *)
(* offline tasks.                                                          *)
(*                                                                         *)
(* The browser's cookie says who a call is made by.  The answers to a      *)
(* login, a logout and a save of the profile change it when they arrive;   *)
(* the handlers change the application's user a little later, each in its  *)
(* own time.                                                               *)
(***************************************************************************)
EXTENDS ApiCalls, FiniteSets

CONSTANTS
    Login,          \* the users of the server
    Admin,          \* those of them who are administrators
    Nobody,         \* no user
    MaxSessionActs  \* bound on the user's acts

ASSUME SessionAssumption ==
    Admin \subseteq Login /\ Nobody \notin Login /\ MaxSessionActs \in Nat

VARIABLES
    cookie,         \* whose session token the browser holds
    app,            \* the state hooks of the application
    sessionCalls,   \* the calls of the application
    sessionActs,    \* acts so far
    succeeded,      \* history: submissions whose success has arrived
    inTurn          \* history: no logout failed, or was out together with a
                    \* login or a save of the profile

sessionVars == <<cookie, app, sessionCalls, sessionActs, succeeded, inTurn>>

(***************************************************************************)
(* modal is showNewOffline, submitted taskSubmittedCount; signing, saving  *)
(* and submitting disable the buttons of the login page, the profile form  *)
(* and the dialog.                                                         *)
(***************************************************************************)
AppState ==
    [checking : BOOLEAN, user : Login \union {Nobody}, role : {"user", "admin"},
     page : {"files", "settings"}, modal : BOOLEAN, submitted : Nat,
     signing : BOOLEAN, saving : BOOLEAN, submitting : BOOLEAN]

FreshApp ==
    [checking |-> TRUE, user |-> Nobody, role |-> "user", page |-> "files",
     modal |-> FALSE, submitted |-> 0, signing |-> FALSE, saving |-> FALSE,
     submitting |-> FALSE]

\* who is the user a call is made by, or signs in; mine is whether the login
\* page, the settings page or the dialog that sent it is still there.
SessionCall ==
    [kind : {"idle", "me", "login", "logout", "save", "submit"}, mine : BOOLEAN,
     who : Login \union {Nobody}, state : CallState]

NoSessionCall == [kind |-> "idle", mine |-> FALSE, who |-> Nobody, state |-> "sent"]

SessionAsk(kind, who) ==
    [kind |-> kind, mine |-> TRUE, who |-> who, state |-> "sent"]

\* The first effect calls getMe.
OnlyGetMe == [s \in Slot |-> IF s = 1 THEN SessionAsk("me", cookie) ELSE NoSessionCall]

SessionInit ==
    /\ cookie \in Login \union {Nobody}
    /\ app = FreshApp
    /\ sessionCalls = OnlyGetMe
    /\ sessionActs = 0
    /\ succeeded = 0
    /\ inTurn = TRUE

\* Mutant: a role that the answer leaves out stays out.
RoleGiven(who) == IF who \in Admin THEN "admin" ELSE ""

RoleOf(who) == IF who \in Admin THEN "admin" ELSE "user"

-----------------------------------------------------------------------------
(***************************************************************************)
(* The user's acts.                                                        *)
(***************************************************************************)

SessionAct == sessionActs < MaxSessionActs /\ sessionActs' = sessionActs + 1

SendSessionCall(call) ==
    \E s \in Free(sessionCalls) : sessionCalls' = [sessionCalls EXCEPT ![s] = call]

SessionOut(kinds) == {s \in Slot : sessionCalls[s].kind \in kinds}

\* The components that sent these calls are gone.
Left(calls, kinds) ==
    [s \in Slot |-> IF calls[s].kind \in kinds THEN [calls[s] EXCEPT !.mine = FALSE]
                    ELSE calls[s]]

SignedIn == ~app.checking /\ app.user # Nobody

\* The dialog covers the page.
OnPage(page) == SignedIn /\ app.page = page /\ ~app.modal

\* LoginPage's handleSubmit up to its await.
SignIn(who) ==
    /\ SessionAct
    /\ ~app.checking /\ app.user = Nobody /\ ~app.signing
    /\ app' = [app EXCEPT !.signing = TRUE]
    /\ SendSessionCall(SessionAsk("login", who))
    /\ inTurn' = (inTurn /\ SessionOut({"logout"}) = {})
    /\ UNCHANGED <<cookie, succeeded>>

\* handleLogout up to its await; its button is never disabled.
SignOut ==
    /\ SessionAct
    /\ OnPage("settings")
    /\ SendSessionCall(SessionAsk("logout", cookie))
    /\ inTurn' = (inTurn /\ SessionOut({"login", "save"}) = {})
    /\ UNCHANGED <<cookie, app, succeeded>>

\* handleSaveProfile up to its await.
SaveName ==
    /\ SessionAct
    /\ OnPage("settings") /\ ~app.saving
    /\ app' = [app EXCEPT !.saving = TRUE]
    /\ SendSessionCall(SessionAsk("save", cookie))
    /\ inTurn' = (inTurn /\ SessionOut({"logout"}) = {})
    /\ UNCHANGED <<cookie, succeeded>>

\* The buttons of the navigation bar: the settings page goes with its form.
Navigate(page) ==
    /\ SessionAct
    /\ SignedIn /\ ~app.modal /\ page # app.page
    /\ app' = [app EXCEPT !.page = page, !.saving = FALSE]
    /\ sessionCalls' = Left(sessionCalls, {"save", "logout"})
    /\ UNCHANGED <<cookie, succeeded, inTurn>>

\* The round button of the file browser, or the administrator's overview.
OpenModal ==
    /\ SessionAct
    /\ OnPage("files") \/ (OnPage("settings") /\ app.role = "admin")
    /\ app' = [app EXCEPT !.modal = TRUE]
    /\ UNCHANGED <<cookie, sessionCalls, succeeded, inTurn>>

\* The dialog's state goes with it.
WithoutModal(p) == [p EXCEPT !.modal = FALSE, !.submitting = FALSE]

CloseModal ==
    /\ SessionAct
    /\ SignedIn /\ app.modal
    /\ app' = WithoutModal(app)
    /\ sessionCalls' = Left(sessionCalls, {"submit"})
    /\ UNCHANGED <<cookie, succeeded, inTurn>>

\* The dialog's handleSubmit up to its await.
SubmitLinks ==
    /\ SessionAct
    /\ SignedIn /\ app.modal /\ ~app.submitting
    /\ app' = [app EXCEPT !.submitting = TRUE]
    /\ SendSessionCall(SessionAsk("submit", cookie))
    /\ UNCHANGED <<cookie, succeeded, inTurn>>

\* The page is loaded again; the browser gives its calls up.
ReloadApp ==
    /\ SessionAct
    /\ app' = FreshApp
    /\ sessionCalls' = OnlyGetMe
    /\ succeeded' = 0
    /\ UNCHANGED <<cookie, inTurn>>

-----------------------------------------------------------------------------
(***************************************************************************)
(* The answers, as they arrive at the browser: login, logout and           *)
(* updateProfile come with a cookie, and the middleware refuses a call     *)
(* that was made by nobody.                                                *)
(***************************************************************************)

CookieAfter(call) ==
    CASE call.kind = "logout" -> Nobody
      [] call.kind \in {"login", "save"} -> call.who
      [] OTHER -> cookie

Answer(s) ==
    LET call == sessionCalls[s]
    IN  /\ call.kind # "idle" /\ call.state = "sent"
        /\ call.who # Nobody \/ call.kind = "logout"
        /\ sessionCalls' = [sessionCalls EXCEPT ![s] = [@ EXCEPT !.state = "ok"]]
        /\ cookie' = CookieAfter(call)
        /\ succeeded' = IF call.kind = "submit" THEN succeeded + 1 ELSE succeeded
        /\ UNCHANGED <<app, sessionActs, inTurn>>

Refuse(s) ==
    LET call == sessionCalls[s]
    IN  /\ call.kind # "idle" /\ call.state = "sent"
        /\ sessionCalls' = [sessionCalls EXCEPT ![s] = [@ EXCEPT !.state = "error"]]
        /\ inTurn' = (inTurn /\ call.kind # "logout"
                        /\ (call.kind = "me" => call.who = Nobody))
        /\ UNCHANGED <<cookie, app, sessionActs, succeeded>>

-----------------------------------------------------------------------------
(***************************************************************************)
(* The second halves of the handlers.                                      *)
(***************************************************************************)

EndSessionCall(s, calls, p) ==
    /\ sessionCalls' = [calls EXCEPT ![s] = NoSessionCall]
    /\ app' = p
    /\ UNCHANGED <<cookie, sessionActs, succeeded, inTurn>>

\* getMe's answer ends the loading screen.
GotMe(s) ==
    /\ Back(sessionCalls, s, "me")
    /\ EndSessionCall(s, sessionCalls,
           IF Succeeded(sessionCalls, s)
           THEN [app EXCEPT !.checking = FALSE, !.user = sessionCalls[s].who,
                            !.role = RoleOf(sessionCalls[s].who)]
           ELSE [app EXCEPT !.checking = FALSE])

\* onLoginSuccess; the login page goes, if it is there.
SignedInBack(s) ==
    /\ Back(sessionCalls, s, "login")
    /\ IF Succeeded(sessionCalls, s)
       THEN EndSessionCall(s, Left(sessionCalls, {"login"}),
                [app EXCEPT !.user = sessionCalls[s].who, !.signing = FALSE,
                            !.role = RoleOf(sessionCalls[s].who)])
       ELSE EndSessionCall(s, sessionCalls,
                [app EXCEPT !.signing = @ /\ ~sessionCalls[s].mine])

\* The login page takes the place of the pages and of the dialog, which
\* stays open for the next user.
SignedOut(p) ==
    [p EXCEPT !.user = Nobody, !.role = "user", !.saving = FALSE, !.submitting = FALSE]

\* Mutant: nothing happens once the settings page is gone.
SignedOutBackIfThere(s) ==
    /\ Back(sessionCalls, s, "logout")
    /\ EndSessionCall(s, Left(sessionCalls, {"save", "submit"}),
           IF sessionCalls[s].mine THEN SignedOut(app) ELSE app)

\* handleLogout: finally, so also when the logout failed.
SignedOutBack(s) ==
    /\ Back(sessionCalls, s, "logout")
    /\ EndSessionCall(s, Left(sessionCalls, {"save", "submit"}), SignedOut(app))

\* handleSaveProfile: onUpdateUsername, whoever is signed in by then, if
\* anybody; the role stays.
NameSaved(s) ==
    LET signs == app.user = Nobody
        p == [app EXCEPT !.saving = @ /\ ~sessionCalls[s].mine]
    IN  /\ Back(sessionCalls, s, "save")
        /\ IF Succeeded(sessionCalls, s)
           THEN EndSessionCall(s,
                    IF signs THEN Left(sessionCalls, {"login"}) ELSE sessionCalls,
                    [p EXCEPT !.user = sessionCalls[s].who, !.signing = FALSE])
           ELSE EndSessionCall(s, sessionCalls, p)

\* Mutant: a dialog that was closed reports nothing.
ReportedIfOpen(s) == IF sessionCalls[s].mine THEN 1 ELSE 0

\* onSuccess adds one to the count that the file browser watches.
Reported(s) == 1

\* The dialog's handleSubmit: onSuccess, and onClose for whichever dialog is
\* open; a failure is shown in its own.
LinksSubmitted(s) ==
    /\ Back(sessionCalls, s, "submit")
    /\ IF Succeeded(sessionCalls, s)
       THEN EndSessionCall(s, Left(sessionCalls, {"submit"}),
                [WithoutModal(app) EXCEPT !.submitted = @ + Reported(s)])
       ELSE EndSessionCall(s, sessionCalls,
                [app EXCEPT !.submitting = @ /\ ~sessionCalls[s].mine])

-----------------------------------------------------------------------------
SessionCallStep(s) ==
    \/ Answer(s)
    \/ Refuse(s)
    \/ GotMe(s)
    \/ SignedInBack(s)
    \/ SignedOutBack(s)
    \/ NameSaved(s)
    \/ LinksSubmitted(s)

SessionNext ==
    \/ \E who \in Login : SignIn(who)
    \/ SignOut
    \/ SaveName
    \/ \E page \in {"files", "settings"} : Navigate(page)
    \/ OpenModal
    \/ CloseModal
    \/ SubmitLinks
    \/ ReloadApp
    \/ \E s \in Slot : SessionCallStep(s)

SessionSpec == SessionInit /\ [][SessionNext]_sessionVars

-----------------------------------------------------------------------------
(***************************************************************************)
(* Properties.                                                             *)
(***************************************************************************)

\* Every variable stays in its domain.
SessionTypeOK ==
    /\ cookie \in Login \union {Nobody}
    /\ app \in AppState
    /\ sessionCalls \in [Slot -> SessionCall]
    /\ sessionActs \in 0 .. MaxSessionActs
    /\ succeeded \in Nat
    /\ inTurn \in BOOLEAN

\* When no call that changes the session is out, the application shows the
\* user and the role of whoever the browser's cookie speaks for, although
\* the cookie and the page change at different moments and the page that
\* started a call may be gone; no logout or check may have failed, and no
\* logout met a login or a save of the profile.
SettledUserIsCookies ==
    inTurn /\ SessionOut({"me", "login", "logout", "save"}) = {} =>
        /\ app.user = cookie
        /\ app.user # Nobody => app.role = RoleOf(app.user)

\* Every submission that succeeded is reported to the file browser once, and
\* once only, also when its dialog was closed, opened again for another
\* submission, or replaced by the login page meanwhile.
SubmissionsReported ==
    app.submitted
        + Cardinality({s \in SessionOut({"submit"}) : Succeeded(sessionCalls, s)})
    = succeeded
=============================================================================
