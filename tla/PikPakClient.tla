---------------------------- MODULE PikPakClient ----------------------------
(***************************************************************************)
(* The tokens of one account: the client objects that hold them in memory, *)
(* each behind its mutex, and the row that stores them.  Calls of          *)
(* DoRequest and TestAccount obtain a client with GetClient, present its   *)
(* access token, and refresh or log in when PikPak refuses it; every new   *)
(* token is written back to the row.  UpdateAccount, DeleteAccount and     *)
(* restarts run beside them.                                               *)
(*                                                                         *)
(* Tokens are numbered in the order PikPak hands them out; one answer may  *)
(* carry an access and a refresh token, which then bear one number.        *)
(* Captcha tokens are reduced to whether they were obtained.               *)
(***************************************************************************)
EXTENDS Naturals

CONSTANTS
    Call,       \* calls of DoRequest and TestAccount
    None,       \* no call, no client
    InitialRows,  \* rows the account may have when the process starts
    MaxTokens,  \* bound: tokens PikPak hands out
    MaxEvents   \* bound: account updates and deletions, restarts

ASSUME ClientAssumption ==
    /\ None \notin Call
    /\ MaxTokens \in Nat \ {0}
    /\ MaxEvents \in Nat

VARIABLES
    row,     \* the credential columns of the account in pikpak_accounts
    client,  \* client objects, named after the call that built them
    built,   \* the client objects built since the process started
    cache,   \* account.Service.clients: the client the next call will get
    mu,      \* Client.mu: the call that holds it
    call,    \* the local variables of every call
    editor,  \* UpdateAccount or DeleteAccount under way
    issued,  \* the number of the newest token
    edited,  \* history: an update was written since the process started
    stale,   \* history: the newest token when the last replacement of the
             \* refresh token began, among the updates that have returned
    events   \* history: bounded events so far

vars == <<row, client, built, cache, mu, call, editor, issued, edited, stale, events>>

store   == <<row, built, cache>>
history == <<edited, stale, events>>

Token == 0 .. MaxTokens  \* 0 stands for the empty string

\* legacy: some column is still encrypted with the former secret.
Row == [live : BOOLEAN, password : BOOLEAN, access : Token, refresh : Token,
        legacy : BOOLEAN]

\* At most token 1 was handed out before the process started.
ASSUME RowAssumption ==
    \A r \in InitialRows : r \in Row /\ r.access <= 1 /\ r.refresh <= 1

Client == [password : BOOLEAN, access : Token, refresh : Token, cooling : BOOLEAN]

NoRow    == [live |-> FALSE, password |-> FALSE, access |-> 0, refresh |-> 0, legacy |-> FALSE]
NoClient == [password |-> FALSE, access |-> 0, refresh |-> 0, cooling |-> FALSE]

Opening == {"cache", "read", "migrate", "build"}
Locked  == {"refresh", "relogin", "login", "save", "captcha"}
Final   == {"ok", "failed"}

PC == {"idle", "check", "token", "ensure", "choose", "lockRefresh", "lockLogin", "reread",
       "send", "cool", "forget", "lockCaptcha"} \cup Opening \cup Locked \cup Final

\* for: what the client authenticates for.  refused: the token of the 401 that
\* is answered with a retry.  repeats: requests sent again (history).
CallState ==
    [pc : PC, for : {"first", "retry", "test"}, client : Call \cup {None}, snap : Row,
     token : Token, refused : Token, retried : BOOLEAN, repeats : 0 .. 1, stale : Token]

NoCall == [pc |-> "idle", for |-> "first", client |-> None, snap |-> NoRow, token |-> 0,
           refused |-> 0, retried |-> FALSE, repeats |-> 0, stale |-> 0]

Editor == [pc : {"idle", "write", "drop", "delete"}, password : BOOLEAN, refresh : Token,
           legacy : BOOLEAN, replaces : BOOLEAN, mark : Token]

NoEditor == [pc |-> "idle", password |-> FALSE, refresh |-> 0, legacy |-> FALSE,
             replaces |-> FALSE, mark |-> 0]

Init ==
    /\ row \in InitialRows
    /\ client = [o \in Call |-> NoClient]
    /\ built = {}
    /\ cache = None
    /\ mu = [o \in Call |-> None]
    /\ call = [c \in Call |-> NoCall]
    /\ editor = NoEditor
    /\ issued = 1
    /\ edited = FALSE
    /\ stale = 0
    /\ events = 0

Event == events < MaxEvents /\ events' = events + 1

Goto(c, pc) == call' = [call EXCEPT ![c].pc = pc]

\* What the caller learns; its local variables are gone.
Return(c, result) == call' = [call EXCEPT ![c] = [NoCall EXCEPT !.pc = result]]

(***************************************************************************)
(* GetClient                                                               *)
(***************************************************************************)
\* A request starts with its cooldown check; TestAccount refreshes first.
Entry(c) == IF call[c].for = "test" THEN "lockRefresh" ELSE "check"

\* test: the call is TestAccount, which goes on to read the storage figures.
Begin(c, test) ==
    /\ call[c].pc = "idle"
    /\ call' = [call EXCEPT ![c] = [@ EXCEPT !.pc = "cache", !.stale = stale,
                                             !.for = IF test THEN "test" ELSE "first"]]
    /\ UNCHANGED <<store, client, mu, editor, issued, history>>

FindClient(c) ==
    /\ call[c].pc = "cache"
    /\ IF cache = None THEN Goto(c, "read")
       ELSE call' = [call EXCEPT ![c] = [@ EXCEPT !.pc = Entry(c), !.client = cache]]
    /\ UNCHANGED <<store, client, mu, editor, issued, history>>

ReadRow(c) ==
    /\ call[c].pc = "read"
    /\ IF row.live
       THEN call' = [call EXCEPT ![c] =
                        [@ EXCEPT !.pc = IF row.legacy THEN "migrate" ELSE "build", !.snap = row]]
       ELSE Return(c, "failed")
    /\ UNCHANGED <<store, client, mu, editor, issued, history>>

\* Re-encryption writes back the columns as they were read.
Migrate(c) ==
    /\ call[c].pc = "migrate"
    /\ row' = IF row.live
              THEN [row EXCEPT !.password = call[c].snap.password, !.access = call[c].snap.access,
                               !.refresh = call[c].snap.refresh, !.legacy = FALSE]
              ELSE row
    /\ Goto(c, "build")
    /\ UNCHANGED <<client, built, cache, mu, editor, issued, history>>

Build(c) ==
    /\ call[c].pc = "build"
    /\ client' = [client EXCEPT ![c] =
                    [password |-> call[c].snap.password, access |-> call[c].snap.access,
                     refresh |-> call[c].snap.refresh, cooling |-> FALSE]]
    /\ built' = built \cup {c}
    /\ cache' = c
    /\ call' = [call EXCEPT ![c] = [@ EXCEPT !.pc = Entry(c), !.client = c, !.snap = NoRow]]
    /\ UNCHANGED <<row, mu, editor, issued, history>>

(***************************************************************************)
(* The mutex.  A step that only locks, looks and unlocks needs it free.    *)
(***************************************************************************)
Mine(c) == client[call[c].client]

Free(c) == mu[call[c].client] = None

Lock(c) == mu' = [mu EXCEPT ![call[c].client] = c]

Unlock(c) == mu' = [mu EXCEPT ![call[c].client] = None]

(***************************************************************************)
(* EnsureAuthenticated, RefreshToken and Login                             *)
(***************************************************************************)
\* Authentication succeeded: the caller re-reads the token, or repeats itself.
Authenticated(c) ==
    call' = [call EXCEPT ![c] =
                [@ EXCEPT !.pc = IF call[c].for = "first" THEN "reread" ELSE "check",
                          !.retried = (call[c].retried \/ call[c].for = "retry"), !.for = "first"]]

\* Authentication failed: a first attempt goes out without a token all the same.
NotAuthenticated(c) ==
    IF call[c].for = "first" THEN Goto(c, "send") ELSE Return(c, "failed")

Ensure(c) ==
    /\ call[c].pc = "ensure" /\ Free(c)
    /\ IF Mine(c).access # 0 THEN Authenticated(c) ELSE Goto(c, "choose")
    /\ UNCHANGED <<store, client, mu, editor, issued, history>>

\* The refresh token is looked at without the mutex; emptiness cannot tear.
Choose(c) ==
    /\ call[c].pc = "choose"
    /\ IF Mine(c).refresh # 0 THEN Goto(c, "lockRefresh")
       ELSE IF Mine(c).password THEN Goto(c, "lockLogin")
       ELSE NotAuthenticated(c)
    /\ UNCHANGED <<store, client, mu, editor, issued, history>>

\* RefreshToken failed: the caller logs in if it can.
RefreshFailed(c) == IF Mine(c).password THEN Goto(c, "lockLogin") ELSE NotAuthenticated(c)

LockRefresh(c) ==
    /\ call[c].pc = "lockRefresh" /\ Free(c)
    /\ IF Mine(c).refresh # 0 THEN Lock(c) /\ Goto(c, "refresh")
       ELSE IF Mine(c).password THEN Lock(c) /\ Goto(c, "relogin")
       ELSE mu' = mu /\ RefreshFailed(c)
    /\ UNCHANGED <<store, client, editor, issued, history>>

LockLogin(c) ==
    /\ call[c].pc = "lockLogin" /\ Free(c)
    /\ Lock(c)
    /\ Goto(c, "login")
    /\ UNCHANGED <<store, client, editor, issued, history>>

Takes(c, refresh) ==
    client' = [client EXCEPT ![call[c].client] = [@ EXCEPT !.access = issued + 1,
                                                           !.refresh = refresh]]

\* PikPak may keep the refresh token or rotate it.
Refreshed(c, rotated) ==
    /\ call[c].pc = "refresh" /\ issued < MaxTokens
    /\ issued' = issued + 1
    /\ Takes(c, IF rotated THEN issued + 1 ELSE Mine(c).refresh)
    /\ Goto(c, "save")
    /\ UNCHANGED <<store, mu, editor, history>>

\* Mutant: the lock is given up before the login that follows.
RefreshExpiredUnlocks(c) ==
    /\ call[c].pc = "refresh" /\ Mine(c).password
    /\ Goto(c, "relogin")
    /\ Unlock(c)
    /\ UNCHANGED <<store, client, editor, issued, history>>

\* An expired refresh token is answered with a login, under the same lock.
RefreshExpired(c) ==
    /\ call[c].pc = "refresh" /\ Mine(c).password
    /\ Goto(c, "relogin")
    /\ UNCHANGED <<store, client, mu, editor, issued, history>>

RefreshFails(c) ==
    /\ call[c].pc = "refresh"
    /\ Unlock(c)
    /\ RefreshFailed(c)
    /\ UNCHANGED <<store, client, editor, issued, history>>

LoggedIn(c) ==
    /\ call[c].pc \in {"relogin", "login"} /\ issued < MaxTokens
    /\ issued' = issued + 1
    /\ Takes(c, issued + 1)
    /\ Goto(c, "save")
    /\ UNCHANGED <<store, mu, editor, history>>

\* Mutant: a failed login returns with the mutex locked.
LoginFailsLocked(c) ==
    /\ call[c].pc \in {"relogin", "login"}
    /\ IF call[c].pc = "relogin" THEN RefreshFailed(c) ELSE NotAuthenticated(c)
    /\ UNCHANGED <<store, client, mu, editor, issued, history>>

\* A login inside RefreshToken is tried once more outside it.
LoginFails(c) ==
    /\ call[c].pc \in {"relogin", "login"}
    /\ Unlock(c)
    /\ IF call[c].pc = "relogin" THEN RefreshFailed(c) ELSE NotAuthenticated(c)
    /\ UNCHANGED <<store, client, editor, issued, history>>

\* Mutant: only the access token is written back.
UpdateAccessToken(c) ==
    row' = IF row.live THEN [row EXCEPT !.access = Mine(c).access] ELSE row

\* onTokenUpdated runs under the mutex and writes whatever row has the id.
UpdateTokens(c) ==
    row' = IF row.live THEN [row EXCEPT !.access = Mine(c).access, !.refresh = Mine(c).refresh]
           ELSE row

SaveTokens(c) ==
    /\ call[c].pc = "save"
    /\ UpdateTokens(c)
    /\ Unlock(c)
    /\ Authenticated(c)
    /\ UNCHANGED <<client, built, cache, editor, issued, history>>

(***************************************************************************)
(* doRequest                                                               *)
(***************************************************************************)
CheckCooldown(c) ==
    /\ call[c].pc = "check" /\ Free(c)
    /\ IF Mine(c).cooling THEN Return(c, "failed") ELSE Goto(c, "token")
    /\ UNCHANGED <<store, client, mu, editor, issued, history>>

ReadToken(c) ==
    /\ call[c].pc = "token" /\ Free(c)
    /\ call' = [call EXCEPT ![c] =
                   [@ EXCEPT !.token = Mine(c).access,
                             !.pc = IF Mine(c).access = 0 THEN "ensure" ELSE "send"]]
    /\ UNCHANGED <<store, client, mu, editor, issued, history>>

RereadToken(c) ==
    /\ call[c].pc = "reread" /\ Free(c)
    /\ call' = [call EXCEPT ![c] = [@ EXCEPT !.token = Mine(c).access, !.pc = "send"]]
    /\ UNCHANGED <<store, client, mu, editor, issued, history>>

\* PikPak answers a request.  A retry is never retried.
Answered(c, next) ==
    /\ call[c].pc = "send"
    /\ next
    /\ UNCHANGED <<store, client, mu, editor, issued, history>>

Repeats(c, pc) ==
    call' = [call EXCEPT ![c] = [@ EXCEPT !.pc = pc, !.token = 0, !.repeats = call[c].repeats + 1]]

Served(c) == \E result \in Final : Answered(c, Return(c, result))

TooManyRequests(c) == Answered(c, Goto(c, "cool"))

CaptchaNeeded(c) == ~ call[c].retried /\ Answered(c, Repeats(c, "lockCaptcha"))

Unauthorized(c) ==
    /\ ~ call[c].retried
    /\ call[c].pc = "send"
    /\ call' = [call EXCEPT ![c] = [@ EXCEPT !.pc = "forget", !.for = "retry", !.token = 0,
                                             !.refused = call[c].token,
                                             !.repeats = call[c].repeats + 1]]
    /\ UNCHANGED <<store, client, mu, editor, issued, history>>

SetCooldown(c) ==
    /\ call[c].pc = "cool" /\ Free(c)
    /\ client' = [client EXCEPT ![call[c].client].cooling = TRUE]
    /\ Return(c, "failed")
    /\ UNCHANGED <<store, mu, editor, issued, history>>

\* Mutant: the refused token stays in the client.
ForgetNothing(c) ==
    /\ call[c].pc = "forget" /\ Free(c)
    /\ Goto(c, "ensure")
    /\ UNCHANGED <<store, client, mu, editor, issued, history>>

\* The access token is cleared, whichever it is by now.
ForgetToken(c) ==
    /\ call[c].pc = "forget" /\ Free(c)
    /\ client' = [client EXCEPT ![call[c].client].access = 0]
    /\ Goto(c, "ensure")
    /\ UNCHANGED <<store, mu, editor, issued, history>>

LockCaptcha(c) ==
    /\ call[c].pc = "lockCaptcha" /\ Free(c)
    /\ Lock(c)
    /\ Goto(c, "captcha")
    /\ UNCHANGED <<store, client, editor, issued, history>>

\* Mutant: the repetition does not know that it is one.
GotCaptchaAnew(c) ==
    /\ call[c].pc = "captcha"
    /\ Goto(c, "check")
    /\ Unlock(c)
    /\ UNCHANGED <<store, client, editor, issued, history>>

GotCaptcha(c) ==
    /\ call[c].pc = "captcha"
    /\ call' = [call EXCEPT ![c] = [@ EXCEPT !.pc = "check", !.retried = TRUE]]
    /\ Unlock(c)
    /\ UNCHANGED <<store, client, editor, issued, history>>

CaptchaFails(c) ==
    /\ call[c].pc = "captcha"
    /\ Return(c, "failed")
    /\ Unlock(c)
    /\ UNCHANGED <<store, client, editor, issued, history>>

CooldownEnds(o) ==
    /\ client[o].cooling
    /\ client' = [client EXCEPT ![o].cooling = FALSE]
    /\ UNCHANGED <<store, mu, call, editor, issued, history>>

(***************************************************************************)
(* The account API and the process                                         *)
(***************************************************************************)
\* UpdateAccount reads the row; a password or refresh token given replaces
\* what it read, and what is not given will be written back as it was, in its
\* old encryption.
ReadAccount(password, replaces) ==
    /\ Event
    /\ editor.pc = "idle" /\ row.live
    /\ replaces => issued < MaxTokens
    /\ issued' = IF replaces THEN issued + 1 ELSE issued
    /\ editor' = [pc |-> "write", password |-> row.password \/ password,
                  refresh |-> IF replaces THEN issued + 1 ELSE row.refresh,
                  legacy |-> row.legacy, replaces |-> replaces, mark |-> issued]
    /\ UNCHANGED <<store, client, mu, call, edited, stale>>

WriteAccount ==
    /\ editor.pc = "write"
    /\ row' = IF row.live
              THEN [row EXCEPT !.password = editor.password, !.refresh = editor.refresh,
                               !.legacy = (row.legacy \/ editor.legacy)]
              ELSE row
    /\ editor' = [editor EXCEPT !.pc = "drop"]
    /\ edited' = TRUE
    /\ UNCHANGED <<client, built, cache, mu, call, issued, stale, events>>

DropClient ==
    /\ editor.pc = "drop"
    /\ cache' = None
    /\ stale' = IF editor.replaces THEN editor.mark ELSE stale
    /\ editor' = NoEditor
    /\ UNCHANGED <<row, client, built, mu, call, issued, edited, events>>

DeleteAccount ==
    /\ Event
    /\ editor.pc = "idle" /\ row.live
    /\ cache' = None
    /\ editor' = [NoEditor EXCEPT !.pc = "delete"]
    /\ UNCHANGED <<row, client, built, mu, call, issued, edited, stale>>

DeleteRow ==
    /\ editor.pc = "delete"
    /\ row' = NoRow
    /\ editor' = NoEditor
    /\ UNCHANGED <<client, built, cache, mu, call, issued, history>>

\* Everything but the row is lost.
Restart ==
    /\ Event
    /\ client' = [o \in Call |-> NoClient]
    /\ built' = {}
    /\ cache' = None
    /\ mu' = [o \in Call |-> None]
    /\ call' = [c \in Call |-> IF call[c].pc \in {"idle"} \cup Final THEN call[c]
                               ELSE [NoCall EXCEPT !.pc = "failed"]]
    /\ editor' = NoEditor
    /\ edited' = FALSE
    /\ UNCHANGED <<row, issued, stale>>

Opens(c) == FindClient(c) \/ ReadRow(c) \/ Migrate(c) \/ Build(c)

Authenticates(c) ==
    \/ Ensure(c) \/ Choose(c) \/ LockRefresh(c) \/ LockLogin(c)
    \/ \E rotated \in BOOLEAN : Refreshed(c, rotated)
    \/ RefreshExpired(c) \/ RefreshFails(c) \/ LoggedIn(c) \/ LoginFails(c) \/ SaveTokens(c)

Requests(c) ==
    \/ CheckCooldown(c) \/ ReadToken(c) \/ RereadToken(c)
    \/ Served(c) \/ TooManyRequests(c) \/ CaptchaNeeded(c) \/ Unauthorized(c)
    \/ SetCooldown(c) \/ ForgetToken(c) \/ LockCaptcha(c) \/ GotCaptcha(c) \/ CaptchaFails(c)

Work(c) == Opens(c) \/ Authenticates(c) \/ Requests(c)

Operate ==
    \/ \E password, replaces \in BOOLEAN : ReadAccount(password, replaces)
    \/ WriteAccount \/ DropClient \/ DeleteAccount \/ DeleteRow

Next ==
    \/ \E c \in Call : (\E test \in BOOLEAN : Begin(c, test)) \/ Work(c) \/ CooldownEnds(c)
    \/ Operate
    \/ Restart

Spec == Init /\ [][Next]_vars

\* Goroutines run and network calls end, if only by their timeout; a mutex is
\* released because its holder goes on.  Cooldowns need not end.
FairSpec == Spec /\ \A c \in Call : WF_vars(Work(c))

(***************************************************************************)
(* Properties                                                              *)
(***************************************************************************)

\* Every variable stays in its domain; in particular a call sends its request
\* again at most once, whichever errors meet (client.go:282-300).
TypeOK ==
    /\ row \in Row
    /\ client \in [Call -> Client]
    /\ built \subseteq Call
    /\ cache \in Call \cup {None}
    /\ mu \in [Call -> Call \cup {None}]
    /\ call \in [Call -> CallState]
    /\ editor \in Editor
    /\ issued \in Token
    /\ edited \in BOOLEAN
    /\ stale \in Token
    /\ events \in Nat

\* The mutex of a client is held by exactly the call that is talking to PikPak
\* about its tokens, through the login that follows an expired refresh token
\* and the write-back to the row, and by nobody once that call has moved on:
\* two calls never spend one refresh token at once (auth.go:143, 188, 205).
MutexGuardsTokens ==
    \A o, c \in Call : mu[o] = c <=> call[c].client = o /\ call[c].pc \in Locked

\* After a 401 a call never presents the refused token again: whatever other
\* calls do to the client in between, the retry carries a token that PikPak has
\* handed out since, or none (client.go:282-289).
RefusedTokenNotReused ==
    \A c \in Call : call[c].pc = "send" /\ call[c].refused # 0 => call[c].token # call[c].refused

Alone(o) == built = {o} /\ ~ edited /\ \A c \in Call : call[c].pc # "build"

\* While a process has built a single client and no update was written, the
\* row holds the tokens of that client whenever its mutex is free, so a restart
\* at such a moment loses nothing, even if PikPak keeps or rotates the refresh
\* token, and the client has forgotten its access token (auth.go:207, 271).
LoneClientStored ==
    \A o \in Call :
        Alone(o) /\ row.live /\ mu[o] = None
        => /\ row.refresh = client[o].refresh
           /\ client[o].access \in {0, row.access}

\* Every call returns: the mutex is not reentrant, and is held over network
\* calls, a login within a refresh and the write-back, yet no call waits for
\* ever (client.go:186-306, auth.go:142-279).
CallReturns == \A c \in Call : call[c].pc # "idle" ~> call[c].pc \in Final

\* A call begun after UpdateAccount has returned with a new refresh token does
\* not present an access token from before that update (account/service.go:137).
\* The update leaves the access token in the row: this does not hold.
UpdateApplies ==
    \A c \in Call : call[c].pc = "send" /\ call[c].token # 0 => call[c].token > call[c].stale

=============================================================================
