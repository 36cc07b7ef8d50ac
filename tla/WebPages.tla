------------------------------ MODULE WebPages ------------------------------
(***************************************************************************)
(* The application and the tabs of the settings page that only act when    *)
(* their user does, in one specification.                                  *)
(*                                                                         *)
(* No two of these parts share a hook, a call or a table of the server,    *)
(* and the tabs are never shown together: what one does leaves no trace in *)
(* the next.  So a behaviour here is one of one part, which is chosen at   *)
(* the start; the others stay closed.                                      *)
(***************************************************************************)
EXTENDS AccountsPage, ApiKeysPage, PolicyTab, UsersTab, WebSession

VARIABLE part   \* the part that is open

pagesVars ==
    <<part, accountsVars, keysVars, policyVars, usersVars, sessionVars>>

Part == {"accounts", "keys", "policy", "users", "session"}

\* What a part that stays closed starts from.
Closed ==
    /\ part = "accounts" \/ /\ pool = CHOOSE p \in StartPools : TRUE
                            /\ serial = MaxAccounts
    /\ part = "keys" \/ keySerial = 0
    /\ part = "policy" \/ policy = Default
    /\ part = "users" \/ userTable = CHOOSE t \in StartUsers : TRUE
    /\ part = "session" \/ cookie = Nobody

PagesInit ==
    /\ part \in Part
    /\ AccountsInit /\ KeysInit /\ PolicyInit /\ UsersInit /\ SessionInit
    /\ Closed

OnAccounts ==
    /\ part = "accounts" /\ AccountsNext
    /\ UNCHANGED <<part, keysVars, policyVars, usersVars, sessionVars>>

OnKeys ==
    /\ part = "keys" /\ KeysNext
    /\ UNCHANGED <<part, accountsVars, policyVars, usersVars, sessionVars>>

OnPolicy ==
    /\ part = "policy" /\ PolicyNext
    /\ UNCHANGED <<part, accountsVars, keysVars, usersVars, sessionVars>>

OnUsers ==
    /\ part = "users" /\ UsersNext
    /\ UNCHANGED <<part, accountsVars, keysVars, policyVars, sessionVars>>

OnSession ==
    /\ part = "session" /\ SessionNext
    /\ UNCHANGED <<part, accountsVars, keysVars, policyVars, usersVars>>

PagesNext ==
    \/ OnAccounts
    \/ OnKeys
    \/ OnPolicy
    \/ OnUsers
    \/ OnSession

PagesSpec == PagesInit /\ [][PagesNext]_pagesVars

-----------------------------------------------------------------------------
\* Every variable of every part stays in its domain.
PagesTypeOK ==
    /\ part \in Part
    /\ AccountsTypeOK /\ KeysTypeOK /\ PolicyTypeOK /\ UsersTypeOK
    /\ SessionTypeOK
=============================================================================
