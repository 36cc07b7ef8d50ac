------------------------------ MODULE UsersTab ------------------------------
(***************************************************************************)
(* The users and profile tabs of the settings page                         *)
(* (web/src/pages/SettingsPage.tsx), as an administrator sees them.        *)
(*                                                                         *)
(* The page tells its own user from the others by the name it was given    *)
(* when that user signed in or last saved the profile, while the list      *)
(* holds the names the server knows.                                       *)
(***************************************************************************)
EXTENDS ApiCalls

CONSTANTS
    Me,             \* the id of the signed-in administrator
    MaxUsers,       \* bound on the user ids
    UserName,       \* user names
    NoUser,         \* there is no such user
    StartUsers,     \* what the table may hold at first
    MaxUserActs     \* bound on the administrator's acts

User == 1 .. MaxUsers

UserList == [User -> UserName \union {NoUser}]

ASSUME UsersAssumption ==
    /\ MaxUsers \in Nat \ {0} /\ Me \in User /\ NoUser \notin UserName
    /\ StartUsers \subseteq {t \in UserList : t[Me] # NoUser}
    /\ MaxUserActs \in Nat

VARIABLES
    userTable,  \* the table: the name of each user
    userSerial, \* the last id that was given out
    usersTab,   \* the state hooks of the two tabs
    userCalls,  \* the calls of the two tabs
    userActs,   \* acts so far
    prompt      \* history: no list failed or met a save of the profile, and
                \* no save lost its answer

usersVars == <<userTable, userSerial, usersTab, userCalls, userActs, prompt>>

NoUsers == [u \in User |-> NoUser]

(***************************************************************************)
(* current is currentUsername, which belongs to the application, newName   *)
(* the profile's field, reset the user whose password dialog is open or 0. *)
(***************************************************************************)
UsersState ==
    [tab : {"users", "profile", "other"}, current : UserName, list : UserList,
     loading : BOOLEAN, adder : BOOLEAN, adding : BOOLEAN,
     reset : 0 .. MaxUsers, resetting : BOOLEAN, newName : UserName,
     saving : BOOLEAN]

FreshUsersTab(name) ==
    [tab |-> "other", current |-> name, list |-> NoUsers, loading |-> FALSE,
     adder |-> FALSE, adding |-> FALSE, reset |-> 0, resetting |-> FALSE,
     newName |-> name, saving |-> FALSE]

UserKinds == {"list", "create", "delete", "reset", "save"}

UserCall ==
    [kind : UserKinds \union {"idle"}, mine : BOOLEAN, id : 0 .. MaxUsers,
     name : UserName \union {NoUser}, state : CallState, list : UserList]

NoUserCall ==
    [kind |-> "idle", mine |-> FALSE, id |-> 0, name |-> NoUser,
     state |-> "sent", list |-> NoUsers]

UserAsk(kind, id, name) ==
    [NoUserCall EXCEPT !.kind = kind, !.mine = TRUE, !.id = id, !.name = name]

UsersInit ==
    /\ userTable \in StartUsers
    /\ userSerial \in User /\ \A u \in User : userTable[u] # NoUser <=> u <= userSerial
    /\ usersTab = FreshUsersTab(userTable[Me])
    /\ userCalls = [s \in Slot |-> NoUserCall]
    /\ userActs = 0
    /\ prompt = TRUE

-----------------------------------------------------------------------------
(***************************************************************************)
(* The administrator's acts.                                               *)
(***************************************************************************)

UserAct == userActs < MaxUserActs /\ userActs' = userActs + 1

SendUserCall(call) ==
    \E s \in Free(userCalls) : userCalls' = [userCalls EXCEPT ![s] = call]

UserOut(kind) == {s \in Slot : userCalls[s].kind = kind}

\* The dialogs cover the tabs.
NoDialog == ~usersTab.adder /\ usersTab.reset = 0

\* A tab; the effect on [activeTab, isAdmin] calls loadUsers.
ChooseTab(tab) ==
    /\ UserAct
    /\ NoDialog
    /\ tab # usersTab.tab
    /\ IF tab = "users"
       THEN /\ usersTab' = [usersTab EXCEPT !.tab = tab, !.loading = TRUE]
            /\ SendUserCall(UserAsk("list", 0, NoUser))
            /\ prompt' = (prompt /\ UserOut("save") = {})
       ELSE /\ usersTab' = [usersTab EXCEPT !.tab = tab]
            /\ UNCHANGED <<userCalls, prompt>>
    /\ UNCHANGED <<userTable, userSerial>>

\* The settings page is left and opened again.
ReopenUsers ==
    /\ UserAct
    /\ NoDialog
    /\ usersTab' = FreshUsersTab(usersTab.current)
    /\ userCalls' = Orphaned(userCalls)
    /\ UNCHANGED <<userTable, userSerial, prompt>>

\* Mutant: the old rows stay under the spinner.
RowsKept == usersTab.list

\* A spinner takes the place of the rows.
RowsShown == IF usersTab.loading THEN NoUsers ELSE usersTab.list

UserRow(u) == usersTab.tab = "users" /\ NoDialog /\ RowsShown[u] # NoUser

\* handleDeleteUser, confirmed; the button of one's own row is disabled.
DeleteUser(u) ==
    /\ UserAct
    /\ UserRow(u)
    /\ RowsShown[u] # usersTab.current
    /\ SendUserCall(UserAsk("delete", u, NoUser))
    /\ UNCHANGED <<userTable, userSerial, usersTab, prompt>>

OpenAdder ==
    /\ UserAct
    /\ usersTab.tab = "users" /\ NoDialog
    /\ usersTab' = [usersTab EXCEPT !.adder = TRUE]
    /\ UNCHANGED <<userTable, userSerial, userCalls, prompt>>

\* handleCreateUser up to its await.
CreateUser(name) ==
    /\ UserAct
    /\ usersTab.adder /\ ~usersTab.adding
    /\ usersTab' = [usersTab EXCEPT !.adding = TRUE]
    /\ SendUserCall(UserAsk("create", 0, name))
    /\ UNCHANGED <<userTable, userSerial, prompt>>

OpenReset(u) ==
    /\ UserAct
    /\ UserRow(u)
    /\ usersTab' = [usersTab EXCEPT !.reset = u]
    /\ UNCHANGED <<userTable, userSerial, userCalls, prompt>>

\* handleResetPassword up to its await.
ResetPassword ==
    /\ UserAct
    /\ usersTab.reset # 0 /\ ~usersTab.resetting
    /\ usersTab' = [usersTab EXCEPT !.resetting = TRUE]
    /\ SendUserCall(UserAsk("reset", usersTab.reset, NoUser))
    /\ UNCHANGED <<userTable, userSerial, prompt>>

\* Either dialog can be closed while its call is out.
CloseDialog ==
    /\ UserAct
    /\ ~NoDialog
    /\ usersTab' = [usersTab EXCEPT !.adder = FALSE, !.reset = 0]
    /\ UNCHANGED <<userTable, userSerial, userCalls, prompt>>

TypeName(name) ==
    /\ UserAct
    /\ usersTab.tab = "profile"
    /\ usersTab' = [usersTab EXCEPT !.newName = name]
    /\ UNCHANGED <<userTable, userSerial, userCalls, prompt>>

\* handleSaveProfile up to its await.
SaveProfile ==
    /\ UserAct
    /\ usersTab.tab = "profile" /\ ~usersTab.saving
    /\ usersTab' = [usersTab EXCEPT !.saving = TRUE]
    /\ SendUserCall(UserAsk("save", Me, usersTab.newName))
    /\ prompt' = (prompt /\ UserOut("list") \union UserOut("save") = {})
    /\ UNCHANGED <<userTable, userSerial>>

-----------------------------------------------------------------------------
(***************************************************************************)
(* The server.                                                             *)
(***************************************************************************)

UserSent(s, kind) == userCalls[s].kind = kind /\ userCalls[s].state = "sent"

UserServed(s, state, list) ==
    userCalls' = [userCalls EXCEPT ![s] = [@ EXCEPT !.state = state, !.list = list]]

ServeUsers(s) ==
    /\ UserSent(s, "list")
    /\ \/ UserServed(s, "ok", userTable) /\ UNCHANGED prompt
       \/ UserServed(s, "error", NoUsers) /\ prompt' = FALSE
    /\ UNCHANGED <<userTable, userSerial, usersTab, userActs>>

Taken(name) == \E u \in User : userTable[u] = name

ServeCreateUser(s) ==
    /\ UserSent(s, "create")
    /\ \E done \in BOOLEAN, state \in {"ok", "error"} :
        /\ state = "ok" => done
        /\ done => ~Taken(userCalls[s].name) /\ userSerial < MaxUsers
        /\ userSerial' = IF done THEN userSerial + 1 ELSE userSerial
        /\ userTable' = IF done THEN [userTable EXCEPT ![userSerial'] = userCalls[s].name]
                        ELSE userTable
        /\ UserServed(s, state, NoUsers)
    /\ UNCHANGED <<usersTab, prompt, userActs>>

\* The server refuses to delete the one who asks, and who is not there.
ServeDeleteUser(s) ==
    /\ UserSent(s, "delete")
    /\ \E done \in BOOLEAN, state \in {"ok", "error"} :
        /\ state = "ok" => done
        /\ done => userCalls[s].id # Me /\ userTable[userCalls[s].id] # NoUser
        /\ userTable' = IF done THEN [userTable EXCEPT ![userCalls[s].id] = NoUser]
                        ELSE userTable
        /\ UserServed(s, state, NoUsers)
    /\ UNCHANGED <<userSerial, usersTab, prompt, userActs>>

ServeReset(s) ==
    /\ UserSent(s, "reset")
    /\ \E state \in {"ok", "error"} : UserServed(s, state, NoUsers)
    /\ UNCHANGED <<userTable, userSerial, usersTab, prompt, userActs>>

\* Names are unique.
ServeProfile(s) ==
    /\ UserSent(s, "save")
    /\ \E done \in BOOLEAN, state \in {"ok", "error"} :
        /\ state = "ok" => done
        /\ done => userTable[Me] = userCalls[s].name \/ ~Taken(userCalls[s].name)
        /\ userTable' = IF done THEN [userTable EXCEPT ![Me] = userCalls[s].name]
                        ELSE userTable
        /\ prompt' = (prompt /\ (done => state = "ok"))
        /\ UserServed(s, state, NoUsers)
    /\ UNCHANGED <<userSerial, usersTab, userActs>>

-----------------------------------------------------------------------------
(***************************************************************************)
(* The second halves of the handlers.                                      *)
(***************************************************************************)

EndUserCall(s, p) ==
    /\ userCalls' = [userCalls EXCEPT ![s] = NoUserCall]
    /\ usersTab' = IF userCalls[s].mine THEN p ELSE usersTab
    /\ UNCHANGED <<userTable, userSerial, prompt, userActs>>

\* The handler goes on with page p and calls loadUsers.
ReloadUsers(s, p) ==
    /\ userCalls' = [userCalls EXCEPT
           ![s] = [UserAsk("list", 0, NoUser) EXCEPT !.mine = userCalls[s].mine]]
    /\ usersTab' = IF userCalls[s].mine THEN [p EXCEPT !.loading = TRUE] ELSE usersTab
    /\ prompt' = (prompt /\ UserOut("save") = {})
    /\ UNCHANGED <<userTable, userSerial, userActs>>

UsersListed(s) ==
    /\ Back(userCalls, s, "list")
    /\ EndUserCall(s, [usersTab EXCEPT
           !.loading = FALSE,
           !.list = IF Succeeded(userCalls, s) THEN userCalls[s].list ELSE @])

\* handleCreateUser closes the dialog, whether it is its own or not.
UserCreated(s) ==
    /\ Back(userCalls, s, "create")
    /\ IF Succeeded(userCalls, s)
       THEN ReloadUsers(s, [usersTab EXCEPT !.adder = FALSE, !.adding = FALSE])
       ELSE EndUserCall(s, [usersTab EXCEPT !.adding = FALSE])

UserDeleted(s) ==
    /\ Back(userCalls, s, "delete")
    /\ IF Succeeded(userCalls, s) THEN ReloadUsers(s, usersTab) ELSE EndUserCall(s, usersTab)

\* handleResetPassword closes the dialog, whoever it is open for by then.
PasswordReset(s) ==
    /\ Back(userCalls, s, "reset")
    /\ EndUserCall(s, [usersTab EXCEPT
           !.resetting = FALSE,
           !.reset = IF Succeeded(userCalls, s) THEN 0 ELSE @])

\* handleSaveProfile: onUpdateUsername sets the application's user, also
\* when the page is gone, and the effect on it sets the field.
ProfileSaved(s) ==
    LET named == IF Succeeded(userCalls, s)
                 THEN [usersTab EXCEPT !.current = userCalls[s].name,
                           !.newName = IF userCalls[s].name # usersTab.current
                                       THEN userCalls[s].name ELSE @]
                 ELSE usersTab
    IN  /\ Back(userCalls, s, "save")
        /\ userCalls' = [userCalls EXCEPT ![s] = NoUserCall]
        /\ usersTab' = IF userCalls[s].mine THEN [named EXCEPT !.saving = FALSE] ELSE named
        /\ UNCHANGED <<userTable, userSerial, prompt, userActs>>

-----------------------------------------------------------------------------
UserCallStep(s) ==
    \/ ServeUsers(s)
    \/ ServeCreateUser(s)
    \/ ServeDeleteUser(s)
    \/ ServeReset(s)
    \/ ServeProfile(s)
    \/ UsersListed(s)
    \/ UserCreated(s)
    \/ UserDeleted(s)
    \/ PasswordReset(s)
    \/ ProfileSaved(s)

UsersNext ==
    \/ \E tab \in {"users", "profile", "other"} : ChooseTab(tab)
    \/ ReopenUsers
    \/ \E u \in User : DeleteUser(u) \/ OpenReset(u)
    \/ OpenAdder
    \/ \E name \in UserName : CreateUser(name) \/ TypeName(name)
    \/ ResetPassword
    \/ CloseDialog
    \/ SaveProfile
    \/ \E s \in Slot : UserCallStep(s)

UsersSpec == UsersInit /\ [][UsersNext]_usersVars

-----------------------------------------------------------------------------
(***************************************************************************)
(* Properties.                                                             *)
(***************************************************************************)

\* Every variable stays in its domain.
UsersTypeOK ==
    /\ userTable \in UserList /\ userTable[Me] # NoUser
    /\ userSerial \in User
    /\ usersTab \in UsersState
    /\ userCalls \in [Slot -> UserCall]
    /\ userActs \in 0 .. MaxUserActs
    /\ prompt \in BOOLEAN

\* The page never asks the server to delete its own user, as long as no list
\* failed or was under way together with a save of the profile and no save
\* lost its answer: names that changed, lists from before the change and
\* visits to other tabs do not make the own row look like another's.
OwnRowKept ==
    prompt => \A s \in UserOut("delete") : userCalls[s].id # Me
=============================================================================
