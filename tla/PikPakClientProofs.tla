------------------------- MODULE PikPakClientProofs -------------------------
(***************************************************************************)
(* Theorems about PikPakClient for every set of calls, every bound and     *)
(* every row the process may start with: who holds the mutex, what becomes *)
(* of a refused token, and what a restart finds in the row.                *)
(***************************************************************************)
EXTENDS PikPakClient, TLAPS

(***************************************************************************)
(* The invariant that types rest on: a call that is past GetClient has a   *)
(* client that was built, and only there are the client's fields           *)
(* meaningful.                                                             *)
(***************************************************************************)
\* A call here has not built a client yet.
Unopened == {"idle"} \cup Opening

\* Every other call but a finished one has a client that was built.
ClientChosen ==
    \A c \in Call : call[c].pc \notin Unopened \cup Final => call[c].client \in built

\* A call here authenticates, if at all, before its request.
Plain == {"idle", "check", "token", "reread", "send", "cool", "lockCaptcha", "captcha"} \cup Final

\* How far a call has come tells what it authenticates for, and a call that has
\* repeated its request knows it or is about to.
Stages ==
    \A c \in Call :
        /\ call[c].pc \in Unopened => c \notin built
        /\ call[c].pc \in Plain => call[c].for = "first"
        /\ call[c].pc = "forget" => call[c].for = "retry"
        /\ call[c].pc \in Opening => call[c].for # "retry"
        /\ call[c].repeats = 1
           => call[c].retried \/ call[c].for = "retry" \/ call[c].pc \in {"lockCaptcha", "captcha"}

TypeInv == TypeOK /\ cache \in built \cup {None} /\ ClientChosen /\ Stages

USE ClientAssumption

\* A call that is not under way is typed.
LEMMA NoCallTyped == NoRow \in Row /\ NoCall \in CallState
<1>1. NoRow \in Row
  BY DEF NoRow, Row, Token
<1> QED
  BY <1>1 DEF NoCall, CallState, PC, Token

\* The invariant holds when the process starts.
LEMMA InitTypeInv == Init => TypeInv
<1> SUFFICES ASSUME Init PROVE TypeInv
  OBVIOUS
<1>1. NoClient \in Client /\ NoEditor \in Editor
  BY DEF NoClient, Client, NoEditor, Editor, Token
<1>2. NoCall \in CallState
  BY NoCallTyped
<1>3. issued \in Token /\ stale \in Token /\ row \in Row
  BY RowAssumption DEF Init, Token
<1>4. TypeOK
  BY <1>1, <1>2, <1>3 DEF Init, TypeOK
<1> QED
  BY <1>4 DEF Init, TypeInv, ClientChosen, Stages, Unopened, Opening, NoCall, Plain, Final

\* Every update of local variables that the actions make keeps them typed.
LEMMA Updates ==
  ASSUME NEW v \in CallState, NEW p \in PC
  PROVE  /\ [v EXCEPT !.pc = p] \in CallState
         /\ \A b \in BOOLEAN : [v EXCEPT !.pc = p, !.retried = b] \in CallState
         /\ \A b \in BOOLEAN : [v EXCEPT !.pc = p, !.retried = b, !.for = "first"] \in CallState
         /\ \A w \in Token : [v EXCEPT !.token = w, !.pc = p] \in CallState
         /\ \A r \in Row : [v EXCEPT !.pc = p, !.snap = r] \in CallState
         /\ \A o \in Call \cup {None} : [v EXCEPT !.pc = p, !.client = o] \in CallState
         /\ \A o \in Call \cup {None} : \A r \in Row :
              [v EXCEPT !.pc = p, !.client = o, !.snap = r] \in CallState
         /\ \A w \in Token : \A f \in {"first", "test"} :
              [v EXCEPT !.pc = p, !.stale = w, !.for = f] \in CallState
         /\ \A w \in Token : [v EXCEPT !.pc = p, !.token = w, !.repeats = 1] \in CallState
         /\ \A w, u \in Token :
              [v EXCEPT !.pc = p, !.for = "retry", !.token = w, !.refused = u, !.repeats = 1]
                \in CallState
<1>1. [v EXCEPT !.pc = p] \in CallState
  BY DEF CallState
<1>2. \A b \in BOOLEAN : [v EXCEPT !.pc = p, !.retried = b] \in CallState
  BY DEF CallState
<1>3. \A b \in BOOLEAN : [v EXCEPT !.pc = p, !.retried = b, !.for = "first"] \in CallState
  BY DEF CallState
<1>4. \A w \in Token : [v EXCEPT !.token = w, !.pc = p] \in CallState
  BY DEF CallState
<1>5. \A r \in Row : [v EXCEPT !.pc = p, !.snap = r] \in CallState
  BY DEF CallState
<1>6. \A o \in Call \cup {None} : [v EXCEPT !.pc = p, !.client = o] \in CallState
  BY DEF CallState
<1>7. \A o \in Call \cup {None} : \A r \in Row :
        [v EXCEPT !.pc = p, !.client = o, !.snap = r] \in CallState
  BY DEF CallState
<1>8. \A w \in Token : \A f \in {"first", "test"} :
        [v EXCEPT !.pc = p, !.stale = w, !.for = f] \in CallState
  BY DEF CallState
<1>r. \A u \in CallState : [u EXCEPT !.repeats = 1] \in CallState
  <2>1. 1 \in 0 .. 1
    OBVIOUS
  <2>2. \A u \in CallState : \A n \in 0 .. 1 : [u EXCEPT !.repeats = n] \in CallState
    BY DEF CallState
  <2> QED
    BY <2>1, <2>2
<1>9. \A w \in Token : [v EXCEPT !.pc = p, !.token = w, !.repeats = 1] \in CallState
  <2>1. \A w \in Token : [v EXCEPT !.pc = p, !.token = w] \in CallState
    BY DEF CallState
  <2> QED
    BY <1>r, <2>1
<1>10. \A w, u \in Token :
         [v EXCEPT !.pc = p, !.for = "retry", !.token = w, !.refused = u, !.repeats = 1]
           \in CallState
  <2>1. \A w, u \in Token :
          [v EXCEPT !.pc = p, !.for = "retry", !.token = w, !.refused = u] \in CallState
    BY DEF CallState
  <2> QED
    BY <1>r, <2>1
<1> QED
  BY <1>1, <1>2, <1>3, <1>4, <1>5, <1>6, <1>7, <1>8, <1>9, <1>10

\* Moving a call keeps its local variables typed.
LEMMA GotoTyped ==
  ASSUME NEW c \in Call, NEW pc \in PC, call \in [Call -> CallState], Goto(c, pc)
  PROVE  call' \in [Call -> CallState]
<1>1. \A v \in CallState : [v EXCEPT !.pc = pc] \in CallState
  BY DEF CallState
<1> QED
  BY <1>1 DEF Goto

\* So does ending it.
LEMMA ReturnTyped ==
  ASSUME NEW c \in Call, NEW result \in Final, call \in [Call -> CallState], Return(c, result)
  PROVE  call' \in [Call -> CallState]
<1>1. NoCall \in CallState
  BY NoCallTyped
<1>2. \A v \in CallState : \A p \in PC : [v EXCEPT !.pc = p] \in CallState
  BY DEF CallState
<1> QED
  BY <1>1, <1>2 DEF Return, PC

\* So does going on after an authentication.
LEMMA AuthenticatedTyped ==
  ASSUME NEW c \in Call, call \in [Call -> CallState], Authenticated(c)
  PROVE  call' \in [Call -> CallState]
<1>1. \A v \in CallState : \A p \in PC : \A b \in BOOLEAN :
        [v EXCEPT !.pc = p, !.retried = b, !.for = "first"] \in CallState
  BY DEF CallState
<1>2. (call[c].retried \/ call[c].for = "retry") \in BOOLEAN
  OBVIOUS
<1> QED
  BY <1>1, <1>2 DEF Authenticated, PC

\* The counter of events stays a number.
LEMMA EventTyped == ASSUME TypeInv, Event PROVE events' \in Nat
  BY DEF TypeInv, TypeOK, Event

\* A call past GetClient has a client.
LEMMA Opened ==
  ASSUME TypeInv, NEW c \in Call, call[c].pc \notin Unopened \cup Final
  PROVE  call[c].client \in built /\ call[c].client \in Call /\ Mine(c) \in Client
BY DEF TypeInv, TypeOK, ClientChosen, Mine

\* The local variables of a call keep their types.
LEMMA CallTyped ==
  ASSUME TypeInv, NEW c \in Call,
         (\E test \in BOOLEAN : Begin(c, test)) \/ Work(c)
  PROVE  call' \in [Call -> CallState]
<1> USE DEF Opening, Locked, Final, PC
<1>t. call \in [Call -> CallState] /\ cache \in Call \cup {None} /\ row \in Row
      /\ stale \in Token /\ issued \in Token /\ client \in [Call -> Client]
  BY DEF TypeInv, TypeOK
<1>v. call[c] \in CallState
  BY <1>t
<1>1. CASE \E test \in BOOLEAN : Begin(c, test)
  <2>1. PICK test \in BOOLEAN : Begin(c, test)
    BY <1>1
  <2> DEFINE f == IF test THEN "test" ELSE "first"
  <2>2. [call[c] EXCEPT !.pc = "cache", !.stale = stale, !.for = f] \in CallState
    <3>1. f \in {"first", "test"} /\ "cache" \in PC
      OBVIOUS
    <3> HIDE DEF f
    <3> QED
      BY <1>t, <1>v, <3>1, Updates
  <2> QED
    BY <1>t, <2>1, <2>2 DEF Begin
<1>2. CASE FindClient(c)
  <2>1. [call[c] EXCEPT !.pc = Entry(c), !.client = cache] \in CallState
    <3>1. Entry(c) \in PC
      BY DEF Entry
    <3> QED
      BY <1>t, <1>v, <3>1, Updates
  <2>2. CASE cache = None
    BY <1>2, <2>2, <1>t, GotoTyped DEF FindClient
  <2>3. CASE cache # None
    BY <1>2, <2>3, <2>1, <1>t DEF FindClient
  <2> QED
    BY <2>2, <2>3
<1>3. CASE ReadRow(c)
  <2> DEFINE p == IF row.legacy THEN "migrate" ELSE "build"
  <2>1. [call[c] EXCEPT !.pc = p, !.snap = row] \in CallState
    <3>1. p \in PC
      OBVIOUS
    <3> HIDE DEF p
    <3> QED
      BY <1>t, <1>v, <3>1, Updates
  <2>2. CASE row.live
    BY <1>3, <2>2, <2>1, <1>t DEF ReadRow
  <2>3. CASE ~ row.live
    BY <1>3, <2>3, <1>t, ReturnTyped DEF ReadRow
  <2> QED
    BY <2>2, <2>3
<1>4. CASE Migrate(c)
  BY <1>4, <1>t, GotoTyped DEF Migrate
<1>5. CASE Build(c)
  <2>1. [call[c] EXCEPT !.pc = Entry(c), !.client = c, !.snap = NoRow] \in CallState
    <3>1. Entry(c) \in PC
      BY DEF Entry
    <3> QED
      BY <1>t, <1>v, <3>1, Updates, NoCallTyped
  <2> QED
    BY <1>5, <2>1, <1>t DEF Build
<1>6. CASE Authenticates(c)
  <2>1. CASE Ensure(c)
    BY <2>1, <1>t, GotoTyped, AuthenticatedTyped DEF Ensure
  <2>2. CASE Choose(c)
    BY <2>2, <1>t, GotoTyped, ReturnTyped DEF Choose, NotAuthenticated
  <2>3. CASE LockRefresh(c)
    BY <2>3, <1>t, GotoTyped, ReturnTyped DEF LockRefresh, RefreshFailed, NotAuthenticated
  <2>4. CASE LockLogin(c) \/ (\E rotated \in BOOLEAN : Refreshed(c, rotated))
             \/ RefreshExpired(c) \/ LoggedIn(c)
    BY <2>4, <1>t, GotoTyped DEF LockLogin, Refreshed, RefreshExpired, LoggedIn
  <2>5. CASE RefreshFails(c) \/ LoginFails(c)
    BY <2>5, <1>t, GotoTyped, ReturnTyped
       DEF RefreshFails, LoginFails, RefreshFailed, NotAuthenticated
  <2>6. CASE SaveTokens(c)
    BY <2>6, <1>t, AuthenticatedTyped DEF SaveTokens
  <2> QED
    BY <1>6, <2>1, <2>2, <2>3, <2>4, <2>5, <2>6 DEF Authenticates
<1>7. CASE Requests(c)
  <2>1. CASE CheckCooldown(c) \/ SetCooldown(c) \/ ForgetToken(c) \/ LockCaptcha(c)
             \/ CaptchaFails(c) \/ Served(c) \/ TooManyRequests(c)
    BY <2>1, <1>t, GotoTyped, ReturnTyped
       DEF CheckCooldown, SetCooldown, ForgetToken, LockCaptcha, CaptchaFails, Served,
           TooManyRequests, Answered
  <2>2. CASE ReadToken(c) \/ RereadToken(c)
    <3>1. Mine(c).access \in Token
      BY <2>2, Opened DEF ReadToken, RereadToken, Unopened, Client
    <3>2. \A q \in PC : [call[c] EXCEPT !.token = Mine(c).access, !.pc = q] \in CallState
      BY <3>1, <1>v, Updates
    <3>3. CASE ReadToken(c)
      <4> DEFINE p == IF Mine(c).access = 0 THEN "ensure" ELSE "send"
      <4>1. [call[c] EXCEPT !.token = Mine(c).access, !.pc = p] \in CallState
        BY <3>2
      <4> QED
        BY <3>3, <4>1, <1>t DEF ReadToken
    <3>4. CASE RereadToken(c)
      BY <3>4, <3>2, <1>t DEF RereadToken
    <3> QED
      BY <2>2, <3>3, <3>4
  <2>3. CASE CaptchaNeeded(c) \/ Unauthorized(c)
    <3>1. call[c].repeats + 1 = 1
      BY <2>3, <1>v DEF CaptchaNeeded, Unauthorized, Answered, TypeInv, Stages, Plain, CallState
    <3>2. call[c].token \in Token /\ 0 \in Token
      BY <1>v DEF CallState, Token
    <3>3. [call[c] EXCEPT !.pc = "lockCaptcha", !.token = 0, !.repeats = 1] \in CallState
      BY <3>2, <1>v, Updates
    <3>4. [call[c] EXCEPT !.pc = "forget", !.for = "retry", !.token = 0,
                          !.refused = call[c].token, !.repeats = 1] \in CallState
      BY <3>2, <1>v, Updates
    <3>5. CASE CaptchaNeeded(c)
      BY <3>5, <3>1, <3>3, <1>t DEF CaptchaNeeded, Answered, Repeats
    <3>6. CASE Unauthorized(c)
      BY <3>6, <3>1, <3>4, <1>t DEF Unauthorized
    <3> QED
      BY <2>3, <3>5, <3>6
  <2>4. CASE GotCaptcha(c)
    <3>1. [call[c] EXCEPT !.pc = "check", !.retried = TRUE] \in CallState
      BY <1>v, Updates
    <3> QED
      BY <2>4, <3>1, <1>t DEF GotCaptcha
  <2> QED
    BY <1>7, <2>1, <2>2, <2>3, <2>4 DEF Requests
<1> QED
  BY <1>1, <1>2, <1>3, <1>4, <1>5, <1>6, <1>7 DEF Work, Opens

\* A step of a call, from its beginning on.
Act(c) == (\E test \in BOOLEAN : Begin(c, test)) \/ Work(c)

Issues(c) == (\E rotated \in BOOLEAN : Refreshed(c, rotated)) \/ LoggedIn(c)

\* A call does not touch the local variables of another.
LEMMA OthersStay ==
  ASSUME TypeInv, NEW c \in Call, Act(c)
  PROVE  \A d \in Call \ {c} : call'[d] = call[d]
<1> USE DEF TypeInv, TypeOK, Goto, Return, Authenticated, NotAuthenticated, RefreshFailed
<1>1. CASE (\E test \in BOOLEAN : Begin(c, test)) \/ Opens(c)
  BY <1>1 DEF Opens, Begin, FindClient, ReadRow, Migrate, Build
<1>2. CASE Authenticates(c)
  BY <1>2 DEF Authenticates, Ensure, Choose, LockRefresh, LockLogin, Refreshed, RefreshExpired,
              RefreshFails, LoggedIn, LoginFails, SaveTokens
<1>3. CASE Requests(c)
  BY <1>3 DEF Requests, CheckCooldown, ReadToken, RereadToken, Answered, Repeats, Served,
              TooManyRequests, CaptchaNeeded, Unauthorized, SetCooldown, ForgetToken,
              LockCaptcha, GotCaptcha, CaptchaFails
<1> QED
  BY <1>1, <1>2, <1>3 DEF Act, Work

\* Which steps of a call touch the row, the cache and the clients.
LEMMA SharedEffects ==
  ASSUME NEW c \in Call, Act(c)
  PROVE  /\ UNCHANGED <<editor, edited, stale, events>>
         /\ row' = row \/ Migrate(c) \/ SaveTokens(c)
         /\ (built' = built /\ cache' = cache) \/ Build(c)
         /\ (client' = client /\ issued' = issued)
            \/ Build(c) \/ Issues(c) \/ SetCooldown(c) \/ ForgetToken(c)
<1> USE DEF store, history
<1>1. CASE (\E test \in BOOLEAN : Begin(c, test)) \/ Opens(c)
  BY <1>1 DEF Opens, Begin, FindClient, ReadRow, Migrate, Build
<1>2. CASE Authenticates(c)
  BY <1>2 DEF Authenticates, Ensure, Choose, LockRefresh, LockLogin, Refreshed, RefreshExpired,
              RefreshFails, LoggedIn, LoginFails, SaveTokens, Issues
<1>3. CASE Requests(c)
  BY <1>3 DEF Requests, CheckCooldown, ReadToken, RereadToken, Answered, Served,
              TooManyRequests, CaptchaNeeded, Unauthorized, SetCooldown, ForgetToken,
              LockCaptcha, GotCaptcha, CaptchaFails
<1> QED
  BY <1>1, <1>2, <1>3 DEF Act, Work

\* A step of a call takes, leaves or gives up the mutex of its client.
LEMMA MutexEffects ==
  ASSUME NEW c \in Call, Act(c)
  PROVE  \/ mu' = mu
         \/ Free(c) /\ Lock(c) /\ call[c].pc \in {"lockRefresh", "lockLogin", "lockCaptcha"}
         \/ Unlock(c) /\ call[c].pc \in Locked
<1> USE DEF Locked
<1>1. CASE (\E test \in BOOLEAN : Begin(c, test)) \/ Opens(c)
  BY <1>1 DEF Opens, Begin, FindClient, ReadRow, Migrate, Build
<1>2. CASE Authenticates(c)
  BY <1>2 DEF Authenticates, Ensure, Choose, LockRefresh, LockLogin, Refreshed, RefreshExpired,
              RefreshFails, LoggedIn, LoginFails, SaveTokens
<1>3. CASE Requests(c)
  BY <1>3 DEF Requests, CheckCooldown, ReadToken, RereadToken, Answered, Served,
              TooManyRequests, CaptchaNeeded, Unauthorized, SetCooldown, ForgetToken,
              LockCaptcha, GotCaptcha, CaptchaFails
<1> QED
  BY <1>1, <1>2, <1>3 DEF Act, Work

\* The account API touches no client and no call.
LEMMA OperatorEffects ==
  ASSUME Operate
  PROVE  UNCHANGED <<client, built, mu, call>>
BY DEF Operate, ReadAccount, WriteAccount, DropClient, DeleteAccount, DeleteRow, store, history

\* The row keeps its type.
LEMMA RowTyped ==
  ASSUME TypeInv, Next
  PROVE  row' \in Row
<1>t. row \in Row /\ call \in [Call -> CallState] /\ editor \in Editor
  BY DEF TypeInv, TypeOK
<1>1. \A r \in Row : \A p \in BOOLEAN : \A w, u \in Token :
        /\ [r EXCEPT !.password = p, !.access = w, !.refresh = u, !.legacy = FALSE] \in Row
        /\ \A g \in BOOLEAN : [r EXCEPT !.password = p, !.refresh = u, !.legacy = g] \in Row
        /\ [r EXCEPT !.access = w, !.refresh = u] \in Row
  BY DEF Row
<1>2. ASSUME NEW c \in Call, Act(c)
      PROVE  row' \in Row
  <2>1. CASE Migrate(c)
    <3>1. call[c].snap.password \in BOOLEAN /\ call[c].snap.access \in Token
          /\ call[c].snap.refresh \in Token
      BY <1>t DEF CallState, Row
    <3> QED
      BY <2>1, <3>1, <1>1, <1>t DEF Migrate
  <2>2. CASE SaveTokens(c)
    <3>1. Mine(c).access \in Token /\ Mine(c).refresh \in Token
      BY <2>2, Opened DEF SaveTokens, Unopened, Opening, Final, Client
    <3> QED
      BY <2>2, <3>1, <1>1, <1>t DEF SaveTokens, UpdateTokens
  <2> QED
    BY <1>2, <2>1, <2>2, <1>t, SharedEffects
<1>3. CASE Operate
  <2>1. CASE WriteAccount
    <3>1. /\ editor.password \in BOOLEAN /\ editor.refresh \in Token
          /\ (row.legacy \/ editor.legacy) \in BOOLEAN
      BY <1>t DEF Editor, Row
    <3> QED
      BY <2>1, <3>1, <1>1, <1>t DEF WriteAccount
  <2> QED
    BY <1>3, <2>1, <1>t, NoCallTyped
       DEF Operate, ReadAccount, DropClient, DeleteAccount, DeleteRow, store
<1> QED
  BY <1>2, <1>3, <1>t DEF Next, Act, CooldownEnds, Restart, store

\* The clients and the number of the newest token keep their types.
LEMMA ClientTyped ==
  ASSUME TypeInv, Next
  PROVE  client' \in [Call -> Client] /\ issued' \in Token
<1>t. client \in [Call -> Client] /\ issued \in Token /\ call \in [Call -> CallState]
  BY DEF TypeInv, TypeOK
<1>1. \A v \in Client : \A w, u \in Token : \A b \in BOOLEAN :
        /\ [v EXCEPT !.access = w, !.refresh = u] \in Client
        /\ [v EXCEPT !.access = w] \in Client
        /\ [v EXCEPT !.cooling = b] \in Client
  BY DEF Client
<1>2. ASSUME NEW c \in Call, Act(c)
      PROVE  client' \in [Call -> Client] /\ issued' \in Token
  <2>1. CASE Build(c)
    <3>1. call[c].snap \in Row
      BY <1>t DEF CallState
    <3> QED
      BY <2>1, <3>1, <1>t DEF Build, Client, Row
  <2>2. CASE Issues(c)
    <3>1. issued + 1 \in Token
      BY <2>2, <1>t DEF Issues, Refreshed, LoggedIn, Token
    <3>2. call[c].client \in Call /\ Mine(c).refresh \in Token
      BY <2>2, Opened DEF Issues, Refreshed, LoggedIn, Unopened, Opening, Final, Client
    <3>3. PICK u \in Token : Takes(c, u)
      BY <2>2, <3>1, <3>2 DEF Issues, Refreshed, LoggedIn
    <3>4. issued' = issued + 1
      BY <2>2 DEF Issues, Refreshed, LoggedIn
    <3> QED
      BY <3>1, <3>2, <3>3, <3>4, <1>1, <1>t DEF Takes
  <2>3. CASE SetCooldown(c) \/ ForgetToken(c)
    <3>1. 0 \in Token
      BY DEF Token
    <3>2. \A v \in Client : [v EXCEPT !.cooling = TRUE] \in Client
      BY DEF Client
    <3>3. CASE SetCooldown(c)
      BY <3>3, <3>2, <1>t DEF SetCooldown, store
    <3>4. CASE ForgetToken(c)
      BY <3>4, <3>1, <1>1, <1>t DEF ForgetToken, store
    <3> QED
      BY <2>3, <3>3, <3>4
  <2> QED
    BY <1>2, <2>1, <2>2, <2>3, <1>t, SharedEffects
<1>3. ASSUME NEW c \in Call, CooldownEnds(c)
      PROVE  client' \in [Call -> Client] /\ issued' \in Token
  BY <1>3, <1>1, <1>t DEF CooldownEnds
<1>4. CASE Operate
  <2>1. issued' \in Token
    BY <1>4, <1>t DEF Operate, ReadAccount, WriteAccount, DropClient, DeleteAccount, DeleteRow, Token
  <2> QED
    BY <1>4, <2>1, <1>t, OperatorEffects
<1>5. CASE Restart
  BY <1>5, <1>t DEF Restart, NoClient, Client, Token
<1> QED
  BY <1>2, <1>3, <1>4, <1>5 DEF Next, Act

\* The rest of the shared state keeps its type.
LEMMA SharedTyped ==
  ASSUME TypeInv, Next
  PROVE  /\ built' \subseteq Call /\ cache' \in built' \cup {None}
         /\ editor' \in Editor /\ edited' \in BOOLEAN /\ stale' \in Token /\ events' \in Nat
<1>t. /\ built \subseteq Call /\ cache \in built \cup {None} /\ row \in Row
      /\ editor \in Editor /\ edited \in BOOLEAN /\ stale \in Token /\ events \in Nat
      /\ issued \in Token
  BY DEF TypeInv, TypeOK
<1>1. ASSUME NEW c \in Call, Act(c)
      PROVE  built' \subseteq Call /\ cache' \in built' \cup {None}
  BY <1>1, <1>t, SharedEffects DEF Build
<1>2. CASE Operate
  <2>1. built' = built /\ cache' \in {cache, None}
    BY <1>2 DEF Operate, ReadAccount, WriteAccount, DropClient, DeleteAccount, DeleteRow, store
  <2>2. edited' \in BOOLEAN /\ stale' \in Token
    BY <1>2, <1>t
       DEF Operate, ReadAccount, WriteAccount, DropClient, DeleteAccount, DeleteRow, history,
           Editor
  <2>3. events' \in Nat
    BY <1>2, <1>t, EventTyped
       DEF Operate, ReadAccount, WriteAccount, DropClient, DeleteAccount, DeleteRow, history
  <2>4. NoEditor \in Editor
    BY DEF NoEditor, Editor, Token
  <2>5. editor' \in Editor
    <3>1. ASSUME NEW password \in BOOLEAN, NEW replaces \in BOOLEAN,
                 ReadAccount(password, replaces)
          PROVE  editor' \in Editor
      <4>1. (row.password \/ password) \in BOOLEAN /\ row.legacy \in BOOLEAN
        BY <1>t DEF Row
      <4>2. (IF replaces THEN issued + 1 ELSE row.refresh) \in Token
        BY <3>1, <1>t DEF ReadAccount, Row, Token
      <4> QED
        BY <3>1, <4>1, <4>2, <1>t DEF ReadAccount, Editor
    <3>2. CASE WriteAccount
      BY <3>2, <1>t DEF WriteAccount, Editor
    <3>3. CASE DeleteAccount
      BY <3>3, <2>4 DEF DeleteAccount, Editor
    <3>4. CASE DropClient \/ DeleteRow
      BY <3>4, <2>4 DEF DropClient, DeleteRow
    <3> QED
      BY <1>2, <3>1, <3>2, <3>3, <3>4 DEF Operate
  <2> QED
    BY <2>1, <2>2, <2>3, <2>5, <1>t
<1>3. CASE Restart
  <2>1. events' \in Nat
    BY <1>3, EventTyped DEF Restart
  <2>2. editor' \in Editor
    BY <1>3 DEF Restart, NoEditor, Editor, Token
  <2> QED
    BY <1>3, <2>1, <2>2, <1>t DEF Restart
<1>4. ASSUME NEW c \in Call, Act(c) \/ CooldownEnds(c)
      PROVE  UNCHANGED <<editor, edited, stale, events>>
  BY <1>4, SharedEffects DEF CooldownEnds, history
<1>5. ASSUME NEW c \in Call, CooldownEnds(c)
      PROVE  UNCHANGED <<built, cache>>
  BY <1>5 DEF CooldownEnds, store
<1> QED
  BY <1>1, <1>2, <1>3, <1>4, <1>5, <1>t DEF Next, Act

\* The mutexes keep their type.
LEMMA MutexTyped ==
  ASSUME TypeInv, Next
  PROVE  mu' \in [Call -> Call \cup {None}]
<1>t. mu \in [Call -> Call \cup {None}]
  BY DEF TypeInv, TypeOK
<1>1. ASSUME NEW c \in Call, Act(c)
      PROVE  mu' \in [Call -> Call \cup {None}]
  BY <1>1, <1>t, MutexEffects DEF Lock, Unlock
<1> QED
  BY <1>1, <1>t, OperatorEffects DEF Next, Act, CooldownEnds, Restart

\* The local variables of all calls keep their types.
LEMMA CallsTyped ==
  ASSUME TypeInv, Next
  PROVE  call' \in [Call -> CallState]
<1>t. call \in [Call -> CallState]
  BY DEF TypeInv, TypeOK
<1>1. CASE Restart
  <2>1. [NoCall EXCEPT !.pc = "failed"] \in CallState
    BY NoCallTyped, Updates DEF PC, Final
  <2> QED
    BY <1>1, <2>1, <1>t DEF Restart
<1> QED
  BY <1>1, <1>t, CallTyped, OperatorEffects DEF Next, CooldownEnds

\* Every step keeps the types.
LEMMA StepType == ASSUME TypeInv, Next PROVE TypeOK'
<1>1. cache' \in Call \cup {None}
  BY SharedTyped
<1> QED
  BY <1>1, RowTyped, ClientTyped, SharedTyped, MutexTyped, CallsTyped DEF TypeOK

(***************************************************************************)
(* What each way of updating a call does to its fields.                    *)
(***************************************************************************)
\* Everything but the program counter and the token in hand is kept.
Keeps(c) ==
    /\ call'[c].for = call[c].for /\ call'[c].client = call[c].client
    /\ call'[c].refused = call[c].refused /\ call'[c].snap = call[c].snap
    /\ call'[c].retried = call[c].retried /\ call'[c].repeats = call[c].repeats

Moves(c) == Keeps(c) /\ call'[c].token = call[c].token

Returns(c) ==
    /\ call'[c].pc \in Final /\ call'[c].for = "first" /\ call'[c].repeats = 0
    /\ call'[c].refused = 0 /\ call'[c].token = 0 /\ call'[c].snap = NoRow

Resumes(c) ==
    /\ call'[c].pc \in {"reread", "check"} /\ call'[c].for = "first"
    /\ call[c].for = "retry" \/ call[c].retried => call'[c].retried
    /\ call'[c].client = call[c].client /\ call'[c].repeats = call[c].repeats
    /\ call'[c].token = call[c].token /\ call'[c].refused = call[c].refused
    /\ call'[c].snap = call[c].snap

SendsUnauthenticated(c) ==
    call[c].for = "first" /\ call'[c].pc = "send" /\ Moves(c)

\* Moving a call changes nothing but where it is.
LEMMA GotoFields ==
  ASSUME NEW c \in Call, NEW pc, call \in [Call -> CallState], Goto(c, pc)
  PROVE  call'[c].pc = pc /\ Moves(c)
BY DEF Goto, CallState, Keeps, Moves

\* A call that ends forgets its tokens.
LEMMA ReturnFields ==
  ASSUME NEW c \in Call, NEW result \in Final, call \in [Call -> CallState], Return(c, result)
  PROVE  Returns(c)
BY DEF Return, NoCall, Returns

\* A call that was authenticated goes on with what it had.
LEMMA AuthenticatedFields ==
  ASSUME NEW c \in Call, call \in [Call -> CallState], Authenticated(c)
  PROVE  Resumes(c)
BY DEF Authenticated, CallState, Resumes

\* A call that was not authenticated sends its request all the same, or ends.
LEMMA NotAuthenticatedFields ==
  ASSUME NEW c \in Call, call \in [Call -> CallState], NotAuthenticated(c)
  PROVE  SendsUnauthenticated(c) \/ Returns(c)
BY GotoFields, ReturnFields DEF NotAuthenticated, SendsUnauthenticated, Final

\* A call whose refresh failed logs in, sends its request, or ends.
LEMMA RefreshFailedFields ==
  ASSUME NEW c \in Call, call \in [Call -> CallState], RefreshFailed(c)
  PROVE  (call'[c].pc = "lockLogin" /\ Moves(c)) \/ SendsUnauthenticated(c) \/ Returns(c)
BY GotoFields, NotAuthenticatedFields DEF RefreshFailed

Authenticating == {"choose", "lockRefresh", "lockLogin", "refresh", "relogin", "login", "save"}

\* What an authentication step makes of a call.
LEMMA AuthenticatesFields ==
  ASSUME NEW c \in Call, call \in [Call -> CallState], Authenticates(c)
  PROVE  /\ call[c].pc \in Authenticating \cup {"ensure"}
         /\ \/ call'[c].pc \in Authenticating /\ Moves(c)
            \/ Resumes(c) \/ SendsUnauthenticated(c) \/ Returns(c)
<1> USE DEF Authenticating
<1>1. CASE Ensure(c) \/ SaveTokens(c)
  BY <1>1, GotoFields, AuthenticatedFields DEF Ensure, SaveTokens
<1>2. CASE Choose(c)
  BY <1>2, GotoFields, NotAuthenticatedFields DEF Choose
<1>3. CASE LockRefresh(c)
  BY <1>3, GotoFields, RefreshFailedFields DEF LockRefresh
<1>4. CASE LockLogin(c) \/ (\E rotated \in BOOLEAN : Refreshed(c, rotated))
           \/ RefreshExpired(c) \/ LoggedIn(c)
  BY <1>4, GotoFields DEF LockLogin, Refreshed, RefreshExpired, LoggedIn
<1>5. CASE RefreshFails(c) \/ LoginFails(c)
  BY <1>5, RefreshFailedFields, NotAuthenticatedFields DEF RefreshFails, LoginFails
<1> QED
  BY <1>1, <1>2, <1>3, <1>4, <1>5 DEF Authenticates

\* What a request step makes of a call.
LEMMA RequestsFields ==
  ASSUME NEW c \in Call, call \in [Call -> CallState], Requests(c)
  PROVE  /\ call[c].pc \in {"check", "token", "reread", "send", "cool", "forget", "lockCaptcha",
                            "captcha"}
         /\ \/ Returns(c)
            \/ call[c].pc = "check" /\ call'[c].pc = "token" /\ Moves(c)
            \/ /\ call[c].pc \in {"token", "reread"} /\ call'[c].pc \in {"ensure", "send"}
               /\ Keeps(c) /\ call'[c].token = Mine(c).access
            \/ call[c].pc = "send" /\ call'[c].pc = "cool" /\ Moves(c)
            \/ /\ call[c].pc = "send" /\ call'[c].pc = "lockCaptcha"
               /\ call'[c].for = call[c].for /\ call'[c].client = call[c].client
               /\ call'[c].refused = call[c].refused /\ call'[c].token = 0
               /\ call'[c].snap = call[c].snap
            \/ /\ call[c].pc = "send" /\ call'[c].pc = "forget" /\ call'[c].for = "retry"
               /\ call'[c].client = call[c].client /\ call'[c].token = 0
               /\ call'[c].refused = call[c].token /\ call'[c].snap = call[c].snap
            \/ call[c].pc = "forget" /\ call'[c].pc = "ensure" /\ Moves(c)
            \/ call[c].pc = "lockCaptcha" /\ call'[c].pc = "captcha" /\ Moves(c)
            \/ /\ call[c].pc = "captcha" /\ call'[c].pc = "check" /\ call'[c].retried
               /\ call'[c].for = call[c].for /\ call'[c].client = call[c].client
               /\ call'[c].refused = call[c].refused /\ call'[c].token = call[c].token
               /\ call'[c].snap = call[c].snap
<1>f. "ok" \in Final /\ "failed" \in Final
  BY DEF Final
<1>1. CASE CheckCooldown(c) \/ ForgetToken(c) \/ LockCaptcha(c)
  BY <1>f, <1>1, GotoFields, ReturnFields DEF CheckCooldown, ForgetToken, LockCaptcha
<1>2. CASE SetCooldown(c) \/ CaptchaFails(c)
  BY <1>f, <1>2, ReturnFields DEF SetCooldown, CaptchaFails
<1>3. CASE Served(c)
  BY <1>3, ReturnFields DEF Served, Answered
<1>4. CASE TooManyRequests(c)
  BY <1>4, GotoFields DEF TooManyRequests, Answered
<1>5. CASE ReadToken(c) \/ RereadToken(c)
  <2>1. PICK p \in {"ensure", "send"} :
          call'[c] = [call[c] EXCEPT !.token = Mine(c).access, !.pc = p]
    <3>1. CASE ReadToken(c)
      BY <3>1 DEF ReadToken
    <3>2. CASE RereadToken(c)
      BY <3>2 DEF RereadToken
    <3> QED
      BY <1>5, <3>1, <3>2
  <2> DEFINE m == Mine(c).access
  <2>2. call'[c].pc = p /\ Keeps(c) /\ call'[c].token = m
    <3> HIDE DEF m
    <3>1. call'[c] = [call[c] EXCEPT !.token = m, !.pc = p]
      BY <2>1 DEF m
    <3>2. call[c] \in CallState
      OBVIOUS
    <3> QED
      BY <3>1, <3>2 DEF CallState, Keeps
  <2> QED
    BY <1>5, <2>2 DEF ReadToken, RereadToken
<1>6. CASE CaptchaNeeded(c)
  BY <1>6 DEF CaptchaNeeded, Answered, Repeats, CallState
<1>7. CASE Unauthorized(c)
  BY <1>7 DEF Unauthorized, CallState
<1>8. CASE GotCaptcha(c)
  BY <1>8 DEF GotCaptcha, CallState
<1> QED
  BY <1>1, <1>2, <1>3, <1>4, <1>5, <1>6, <1>7, <1>8 DEF Requests

\* What a step of GetClient makes of a call.
LEMMA OpensFields ==
  ASSUME NEW c \in Call, call \in [Call -> CallState],
         (\E test \in BOOLEAN : Begin(c, test)) \/ Opens(c)
  PROVE  /\ call[c].pc \in Unopened
         /\ call'[c].repeats \in {0, call[c].repeats} /\ call'[c].refused \in {0, call[c].refused}
         /\ call'[c].token \in {0, call[c].token}
         /\ Returns(c) \/ call'[c].retried = call[c].retried
         /\ \/ Returns(c)
            \/ call'[c].pc \in Opening /\ call'[c].for # "retry"
               /\ call[c].pc = "idle"
            \/ call'[c].pc \in Opening \ {"cache"} /\ call'[c].for = call[c].for
               /\ call[c].pc \in Opening
            \/ /\ call'[c].pc = Entry(c) /\ call'[c].for = call[c].for
               /\ call[c].pc \in Opening
               /\ \/ cache # None /\ call'[c].client = cache
                  \/ Build(c) /\ call'[c].client = c
<1> USE DEF Unopened, Opening
<1>1. CASE \E test \in BOOLEAN : Begin(c, test)
  <2>1. PICK f \in {"first", "test"} :
          call' = [call EXCEPT ![c].pc = "cache", ![c].stale = stale, ![c].for = f]
    BY <1>1 DEF Begin
  <2>2. call[c].pc = "idle"
    BY <1>1 DEF Begin
  <2>3. /\ call'[c].pc = "cache" /\ call'[c].for = f
        /\ call'[c].repeats = call[c].repeats /\ call'[c].refused = call[c].refused
        /\ call'[c].token = call[c].token /\ call'[c].retried = call[c].retried
    BY <2>1 DEF CallState
  <2> QED
    BY <2>2, <2>3
<1>2. CASE FindClient(c)
  <2>1. CASE cache = None
    BY <2>1, <1>2, GotoFields DEF FindClient, Moves, Keeps
  <2>2. CASE cache # None
    <3>1. call'[c] = [call[c] EXCEPT !.pc = Entry(c), !.client = cache]
      BY <2>2, <1>2 DEF FindClient
    <3>2. call[c] \in CallState
      OBVIOUS
    <3> QED
      BY <2>2, <1>2, <3>1, <3>2 DEF FindClient, CallState
  <2> QED
    BY <2>1, <2>2
<1>3. CASE ReadRow(c)
  <2>1. CASE row.live
    <3>1. PICK p \in {"migrate", "build"} : call'[c] = [call[c] EXCEPT !.pc = p, !.snap = row]
      BY <2>1, <1>3 DEF ReadRow
    <3>2. call[c] \in CallState
      OBVIOUS
    <3> QED
      BY <2>1, <1>3, <3>1, <3>2 DEF ReadRow, CallState
  <2>2. CASE ~ row.live
    BY <2>2, <1>3, ReturnFields DEF ReadRow, Final, Returns
  <2> QED
    BY <2>1, <2>2
<1>4. CASE Migrate(c)
  BY <1>4, GotoFields DEF Migrate, Moves, Keeps
<1>5. CASE Build(c)
  BY <1>5 DEF Build, CallState
<1> QED
  BY <1>1, <1>2, <1>3, <1>4, <1>5 DEF Opens

\* Where a call that has a client may be; before and after, it has none.
LEMMA ChosenByAct ==
  ASSUME TypeInv, NEW c \in Call, Act(c)
  PROVE  /\ call'[c].pc \notin Unopened \cup Final => call'[c].client \in built'
         /\ call'[c].pc \in Unopened => c \notin built'
         /\ built' \subseteq built \cup {c} /\ built \subseteq built'
<1>t. call \in [Call -> CallState] /\ built \subseteq Call /\ cache \in built \cup {None}
  BY DEF TypeInv, TypeOK
<1>i. /\ call[c].pc \notin Unopened \cup Final => call[c].client \in built
      /\ call[c].pc \in Unopened => c \notin built
  BY DEF TypeInv, ClientChosen, Stages
<1>b. built' = built \/ Build(c)
  BY SharedEffects
<1>1. CASE (\E test \in BOOLEAN : Begin(c, test)) \/ Opens(c)
  <2>1. c \notin built
    BY <1>1, <1>i, <1>t, OpensFields
  <2>2. CASE built' = built
    <3>1. \/ call'[c].pc \in Unopened \cup Final
          \/ call'[c].client = cache /\ cache # None
          \/ Build(c)
      BY <1>1, <1>t, OpensFields DEF Returns, Unopened
    <3>2. ~ Build(c)
      BY <2>1, <2>2 DEF Build
    <3> QED
      BY <2>1, <2>2, <3>1, <3>2, <1>t
  <2>3. CASE Build(c)
    <3>1. call'[c].pc \notin Unopened /\ call'[c].client = c
      BY <2>3, <1>t DEF Build, Entry, CallState, Unopened, Opening
    <3> QED
      BY <3>1, <2>3 DEF Build
  <2> QED
    BY <1>b, <2>2, <2>3
<1>2. CASE Authenticates(c)
  <2>1. call[c].client \in built /\ built' = built
    BY <1>2, <1>t, <1>i, <1>b, AuthenticatesFields
       DEF Authenticating, Build, Unopened, Opening, Final
  <2> QED
    BY <1>2, <1>t, <2>1, AuthenticatesFields
       DEF Authenticating, Moves, Keeps, Resumes, SendsUnauthenticated, Returns, Unopened,
           Opening, Final
<1>3. CASE Requests(c)
  <2>1. call[c].client \in built /\ built' = built
    BY <1>3, <1>t, <1>i, <1>b, RequestsFields DEF Build, Unopened, Opening, Final
  <2> QED
    BY <1>3, <1>t, <2>1, RequestsFields DEF Moves, Keeps, Returns, Unopened, Opening, Final
<1> QED
  BY <1>1, <1>2, <1>3 DEF Act, Work

\* What a call authenticates for.
LEMMA PurposeByAct ==
  ASSUME TypeInv, NEW c \in Call, Act(c)
  PROVE  /\ call'[c].pc \in Plain => call'[c].for = "first"
         /\ call'[c].pc = "forget" => call'[c].for = "retry"
         /\ call'[c].pc \in Opening => call'[c].for # "retry"
<1>t. call \in [Call -> CallState]
  BY DEF TypeInv, TypeOK
<1>i. /\ call[c].pc \in Plain => call[c].for = "first"
      /\ call[c].pc = "forget" => call[c].for = "retry"
      /\ call[c].pc \in Opening => call[c].for # "retry"
  BY DEF TypeInv, Stages
<1> USE DEF Plain, Final, Opening, Moves, Keeps, Returns
<1>1. CASE (\E test \in BOOLEAN : Begin(c, test)) \/ Opens(c)
  <2>1. call[c].for \in {"first", "retry", "test"}
    BY <1>t DEF CallState
  <2> QED
    BY <1>1, <1>t, <1>i, <2>1, OpensFields DEF Entry
<1>2. CASE Authenticates(c)
  BY <1>2, <1>t, <1>i, AuthenticatesFields DEF Authenticating, Resumes, SendsUnauthenticated
<1>3. CASE Requests(c)
  BY <1>3, <1>t, <1>i, RequestsFields
<1> QED
  BY <1>1, <1>2, <1>3 DEF Act, Work

\* A call that has repeated its request knows it, or is about to.
LEMMA RepetitionByAct ==
  ASSUME TypeInv, NEW c \in Call, Act(c), call'[c].repeats = 1
  PROVE  call'[c].retried \/ call'[c].for = "retry" \/ call'[c].pc \in {"lockCaptcha", "captcha"}
<1>t. call \in [Call -> CallState]
  BY DEF TypeInv, TypeOK
<1>i. /\ call[c].pc \in Plain => call[c].for = "first"
      /\ call[c].pc \in Opening => call[c].for # "retry"
      /\ call[c].repeats = 1
         => call[c].retried \/ call[c].for = "retry" \/ call[c].pc \in {"lockCaptcha", "captcha"}
  BY DEF TypeInv, Stages
<1> USE DEF Moves, Keeps, Returns
<1>1. CASE (\E test \in BOOLEAN : Begin(c, test)) \/ Opens(c)
  <2>1. call[c].repeats = 1 /\ call[c].pc \in Unopened
    BY <1>1, <1>t, OpensFields
  <2>2. call'[c].retried = call[c].retried
    BY <1>1, <1>t, OpensFields
  <2> QED
    BY <2>1, <2>2, <1>i DEF Unopened, Opening, Plain
<1>2. CASE Authenticates(c)
  BY <1>2, <1>t, <1>i, AuthenticatesFields DEF Authenticating, Resumes, SendsUnauthenticated
<1>3. CASE Requests(c)
  BY <1>3, <1>t, <1>i, RequestsFields DEF Plain
<1> QED
  BY <1>1, <1>2, <1>3 DEF Act, Work

\* Every step keeps the invariant.
LEMMA StepInv == ASSUME TypeInv, [Next]_vars PROVE TypeInv'
<1>1. CASE UNCHANGED vars
  BY <1>1 DEF vars, TypeInv, TypeOK, ClientChosen, Stages
<1>2. ASSUME NEW c \in Call, Act(c)
      PROVE  ClientChosen' /\ Stages'
  <2>1. ASSUME NEW d \in Call \ {c}
        PROVE  call'[d] = call[d] /\ (d \notin built => d \notin built') /\ built \subseteq built'
    BY <2>1, <1>2, OthersStay, ChosenByAct
  <2> QED
    BY <1>2, <2>1, ChosenByAct, PurposeByAct, RepetitionByAct DEF TypeInv, ClientChosen, Stages
<1>3. ASSUME Operate \/ \E c \in Call : CooldownEnds(c)
      PROVE  ClientChosen' /\ Stages'
  <2>1. built' = built /\ call' = call
    BY <1>3, OperatorEffects DEF CooldownEnds, store
  <2> QED
    BY <2>1 DEF TypeInv, ClientChosen, Stages
<1>4. ASSUME Restart
      PROVE  ClientChosen' /\ Stages'
  <2>1. ASSUME NEW c \in Call
        PROVE  /\ call'[c].pc \in {"idle"} \cup Final
               /\ call'[c] = call[c] \/ call'[c] = [NoCall EXCEPT !.pc = "failed"]
    BY <1>4 DEF Restart, NoCall, Final
  <2>2. built' = {}
    BY <1>4 DEF Restart
  <2>3. ASSUME NEW c \in Call
        PROVE  call'[c].for = "first" /\ (call'[c].repeats = 1 => call'[c].retried)
    BY <2>1, <2>3 DEF NoCall, TypeInv, Stages, Plain, Final
  <2> QED
    BY <2>1, <2>2, <2>3 DEF ClientChosen, Stages, Unopened, Opening, Final
<1>5. CASE Next
  BY <1>2, <1>3, <1>4, <1>5, StepType, SharedTyped DEF Next, Act, TypeInv
<1> QED
  BY <1>1, <1>5

\* The type invariant of the specification (TypeOK): in particular no call
\* sends its request a third time (repeats).
THEOREM TypeCorrect == Spec => []TypeOK
<1>1. Init => TypeInv
  BY InitTypeInv
<1>2. TypeInv /\ [Next]_vars => TypeInv'
  BY StepInv
<1>3. TypeInv => TypeOK
  BY DEF TypeInv
<1> QED
  BY <1>1, <1>2, <1>3, PTL DEF Spec

(***************************************************************************)
(* The mutex                                                               *)
(***************************************************************************)
\* A step takes the mutex of its client, gives it up, or leaves it alone; it is
\* between the two exactly where Locked says.
LEMMA MutexByAct ==
  ASSUME TypeInv, NEW c \in Call, Act(c)
  PROVE  \/ /\ mu' = mu
            /\ call'[c].pc \in Locked <=> call[c].pc \in Locked
            /\ call[c].pc \in Locked => call'[c].client = call[c].client
         \/ /\ Free(c) /\ Lock(c) /\ call[c].client \in Call /\ call[c].pc \notin Locked
            /\ call'[c].pc \in Locked /\ call'[c].client = call[c].client
         \/ /\ Unlock(c) /\ call[c].client \in Call
            /\ call[c].pc \in Locked /\ call'[c].pc \notin Locked
<1>t. call \in [Call -> CallState]
  BY DEF TypeInv, TypeOK
<1>c. call[c].pc \notin Unopened \cup Final => call[c].client \in Call
  BY Opened
<1> USE DEF Locked, Moves, Keeps, Returns, Final, Unopened, Opening
<1>1. CASE (\E test \in BOOLEAN : Begin(c, test)) \/ Opens(c)
  <2>1. mu' = mu
    BY <1>1 DEF Opens, Begin, FindClient, ReadRow, Migrate, Build
  <2> QED
    BY <1>1, <1>t, <2>1, OpensFields DEF Entry
<1>2. CASE Authenticates(c)
  <2> USE DEF SendsUnauthenticated, Resumes
  <2>1. CASE Ensure(c) \/ Choose(c)
    BY <2>1, <1>t, GotoFields, AuthenticatedFields, NotAuthenticatedFields DEF Ensure, Choose
  <2>2. CASE LockRefresh(c)
    BY <2>2, <1>t, <1>c, GotoFields, RefreshFailedFields DEF LockRefresh
  <2>3. CASE LockLogin(c)
    BY <2>3, <1>t, <1>c, GotoFields DEF LockLogin
  <2>4. CASE (\E rotated \in BOOLEAN : Refreshed(c, rotated)) \/ RefreshExpired(c) \/ LoggedIn(c)
    BY <2>4, <1>t, GotoFields DEF Refreshed, RefreshExpired, LoggedIn
  <2>5. CASE RefreshFails(c) \/ LoginFails(c)
    BY <2>5, <1>t, <1>c, RefreshFailedFields, NotAuthenticatedFields DEF RefreshFails, LoginFails
  <2>6. CASE SaveTokens(c)
    BY <2>6, <1>t, <1>c, AuthenticatedFields DEF SaveTokens
  <2> QED
    BY <1>2, <2>1, <2>2, <2>3, <2>4, <2>5, <2>6 DEF Authenticates
<1>3. CASE Requests(c)
  <2>1. CASE LockCaptcha(c)
    BY <2>1, <1>t, <1>c, GotoFields DEF LockCaptcha
  <2>2. CASE GotCaptcha(c) \/ CaptchaFails(c)
    <3>1. call'[c].pc \notin Locked
      BY <2>2, <1>t, RequestsFields DEF Requests, GotCaptcha, CaptchaFails
    <3> QED
      BY <2>2, <3>1, <1>c DEF GotCaptcha, CaptchaFails
  <2>3. ASSUME ~ LockCaptcha(c), ~ GotCaptcha(c), ~ CaptchaFails(c)
        PROVE  mu' = mu /\ call'[c].pc \notin Locked /\ call[c].pc \notin Locked
    <3>1. mu' = mu /\ call[c].pc \notin {"lockCaptcha", "captcha"}
      BY <1>3, <2>3
         DEF Requests, CheckCooldown, ReadToken, RereadToken, Answered, Served,
             TooManyRequests, CaptchaNeeded, Unauthorized, SetCooldown, ForgetToken
    <3> QED
      BY <1>3, <1>t, <3>1, RequestsFields
  <2> QED
    BY <2>1, <2>2, <2>3
<1> QED
  BY <1>1, <1>2, <1>3 DEF Act, Work

\* Every step keeps the mutexes with the calls that use them.
LEMMA MutexStep ==
  ASSUME TypeInv, MutexGuardsTokens, [Next]_vars
  PROVE  MutexGuardsTokens'
<1>t. mu \in [Call -> Call \cup {None}] /\ call \in [Call -> CallState]
  BY DEF TypeInv, TypeOK
<1>1. CASE UNCHANGED vars
  BY <1>1 DEF vars, MutexGuardsTokens
<1>2. ASSUME NEW c \in Call, Act(c)
      PROVE  MutexGuardsTokens'
  <2>1. \A d \in Call \ {c} : call'[d] = call[d]
    BY <1>2, OthersStay
  <2>2. CASE /\ mu' = mu
             /\ call'[c].pc \in Locked <=> call[c].pc \in Locked
             /\ call[c].pc \in Locked => call'[c].client = call[c].client
    BY <2>1, <2>2 DEF MutexGuardsTokens
  <2>3. CASE /\ Free(c) /\ Lock(c) /\ call[c].client \in Call /\ call[c].pc \notin Locked
             /\ call'[c].pc \in Locked /\ call'[c].client = call[c].client
    BY <2>1, <2>3, <1>t DEF MutexGuardsTokens, Free, Lock
  <2>4. CASE /\ Unlock(c) /\ call[c].client \in Call
             /\ call[c].pc \in Locked /\ call'[c].pc \notin Locked
    BY <2>1, <2>4, <1>t DEF MutexGuardsTokens, Unlock
  <2> QED
    BY <1>2, <2>2, <2>3, <2>4, MutexByAct
<1>3. CASE Operate \/ \E c \in Call : CooldownEnds(c)
  <2>1. mu' = mu /\ call' = call
    BY <1>3, OperatorEffects DEF CooldownEnds
  <2> QED
    BY <2>1 DEF MutexGuardsTokens
<1>4. CASE Restart
  <2>1. ASSUME NEW o \in Call, NEW c \in Call
        PROVE  mu'[o] = None /\ call'[c].pc \notin Locked
    BY <1>4 DEF Restart, NoCall, Final, Locked
  <2> QED
    BY <2>1 DEF MutexGuardsTokens
<1> QED
  BY <1>1, <1>2, <1>3, <1>4 DEF Next, Act

\* The mutex of a client is held by exactly the call that is talking to PikPak
\* about its tokens (MutexGuardsTokens), whatever the number of calls.
THEOREM TokensAreGuarded == Spec => []MutexGuardsTokens
<1>1. Init => TypeInv /\ MutexGuardsTokens
  <2> SUFFICES ASSUME Init PROVE MutexGuardsTokens
    BY InitTypeInv
  <2> QED
    BY DEF Init, MutexGuardsTokens, NoCall, Locked
<1>2. TypeInv /\ MutexGuardsTokens /\ [Next]_vars => (TypeInv /\ MutexGuardsTokens)'
  BY StepInv, MutexStep
<1> QED
  BY <1>1, <1>2, PTL DEF Spec

(***************************************************************************)
(* Refused tokens                                                          *)
(***************************************************************************)
\* Nothing is numbered beyond the newest token.
Known ==
    /\ row.access <= issued
    /\ \A c \in Call : /\ client[c].access <= issued /\ call[c].snap.access <= issued
                       /\ call[c].token <= issued /\ call[c].refused <= issued

\* A refused token is out of the hands of the call, and once the call has
\* cleared it, out of its client.
Refusal ==
    \A c \in Call : call[c].refused # 0 =>
        /\ call[c].pc \notin Unopened \cup Final
        /\ call[c].token # call[c].refused
        /\ call[c].pc # "forget" => client[call[c].client].access # call[c].refused

\* Token numbers are never given out again.
LEMMA IssuedGrows ==
  ASSUME TypeInv, Next
  PROVE  issued \in Nat /\ issued' \in Nat /\ issued' >= issued
<1>t. issued \in Nat
  BY DEF TypeInv, TypeOK, Token
<1>1. ASSUME NEW c \in Call, Act(c) PROVE issued' \in {issued, issued + 1}
  BY <1>1, SharedEffects DEF Build, Issues, Refreshed, LoggedIn, SetCooldown, ForgetToken
<1>2. CASE Operate
  BY <1>2, <1>t DEF Operate, ReadAccount, WriteAccount, DropClient, DeleteAccount, DeleteRow, history
<1>3. CASE Restart \/ \E c \in Call : CooldownEnds(c)
  BY <1>3, <1>t DEF Restart, CooldownEnds
<1> QED
  BY <1>1, <1>2, <1>3, <1>t DEF Next, Act

\* The access token of a client in use stays, is cleared, or is brand-new.
LEMMA AccessOfClients ==
  ASSUME TypeInv, NEW c \in Call, Act(c), NEW o \in Call
  PROVE  \/ client'[o].access \in {client[o].access, 0}
         \/ client'[o].access = issued + 1 /\ issued' = issued + 1
         \/ Build(c) /\ o = c /\ client'[o].access = call[c].snap.access
<1>t. client \in [Call -> Client] /\ call \in [Call -> CallState]
  BY DEF TypeInv, TypeOK
<1>1. CASE Build(c)
  BY <1>1, <1>t DEF Build
<1>2. CASE Issues(c)
  <2>1. PICK u : Takes(c, u)
    BY <1>2 DEF Issues, Refreshed, LoggedIn
  <2>2. issued' = issued + 1
    BY <1>2 DEF Issues, Refreshed, LoggedIn
  <2>3. client'[o] = client[o] \/ client'[o] = [client[o] EXCEPT !.access = issued + 1, !.refresh = u]
    BY <2>1, <1>t DEF Takes
  <2> QED
    BY <2>2, <2>3, <1>t, ZenonT(60) DEF Client
<1>3. CASE SetCooldown(c) \/ ForgetToken(c)
  BY <1>3, <1>t DEF SetCooldown, ForgetToken, Client
<1> QED
  BY <1>1, <1>2, <1>3, SharedEffects

\* What a call remembers of the row it has read there.
LEMMA SnapByAct ==
  ASSUME TypeInv, NEW c \in Call, Act(c)
  PROVE  call'[c].snap \in {call[c].snap, row, NoRow}
<1>t. call \in [Call -> CallState]
  BY DEF TypeInv, TypeOK
<1>1. CASE \E test \in BOOLEAN : Begin(c, test)
  <2>1. PICK f : call'[c] = [call[c] EXCEPT !.pc = "cache", !.stale = stale, !.for = f]
    BY <1>1, <1>t DEF Begin
  <2> QED
    BY <2>1, <1>t DEF CallState
<1>2. CASE FindClient(c)
  <2>1. call'[c].snap = call[c].snap
    <3>1. CASE cache = None
      BY <3>1, <1>2, <1>t, GotoFields DEF FindClient, Moves, Keeps
    <3>2. CASE cache # None
      <4>1. call'[c] = [call[c] EXCEPT !.pc = Entry(c), !.client = cache]
        BY <3>2, <1>2, <1>t DEF FindClient
      <4> QED
        BY <4>1, <1>t DEF CallState
    <3> QED
      BY <3>1, <3>2
  <2> QED
    BY <2>1
<1>3. CASE ReadRow(c)
  <2>1. CASE row.live
    <3>1. PICK q : call'[c] = [call[c] EXCEPT !.pc = q, !.snap = row]
      BY <1>3, <2>1, <1>t DEF ReadRow
    <3> QED
      BY <3>1, <1>t DEF CallState
  <2>2. CASE ~ row.live
    BY <1>3, <2>2, <1>t DEF ReadRow, Return, NoCall
  <2> QED
    BY <2>1, <2>2
<1>4. CASE Migrate(c)
  BY <1>4, <1>t, GotoFields DEF Migrate, Moves, Keeps
<1>5. CASE Build(c)
  BY <1>5, <1>t DEF Build, CallState
<1>6. CASE Authenticates(c)
  BY <1>6, <1>t, AuthenticatesFields DEF Moves, Keeps, Resumes, SendsUnauthenticated, Returns
<1>7. CASE Requests(c)
  BY <1>7, <1>t, RequestsFields DEF Moves, Keeps, Returns
<1> QED
  BY <1>1, <1>2, <1>3, <1>4, <1>5, <1>6, <1>7 DEF Act, Work, Opens

\* The token in hand is the one of the client, and a refused one was in hand.
LEMMA TokenByAct ==
  ASSUME TypeInv, NEW c \in Call, Act(c)
  PROVE  /\ \/ call'[c].token \in {call[c].token, 0}
            \/ call'[c].token = client[call[c].client].access /\ call[c].client \in Call
         /\ call'[c].refused \in {call[c].refused, 0, call[c].token}
<1>t. call \in [Call -> CallState]
  BY DEF TypeInv, TypeOK
<1> USE DEF Moves, Keeps, Returns
<1>1. CASE (\E test \in BOOLEAN : Begin(c, test)) \/ Opens(c)
  BY <1>1, <1>t, OpensFields
<1>2. CASE Authenticates(c)
  BY <1>2, <1>t, AuthenticatesFields DEF Resumes, SendsUnauthenticated
<1>3. CASE Requests(c)
  <2>1. call[c].client \in Call
    BY <1>3, <1>t, RequestsFields, Opened DEF Unopened, Opening, Final
  <2> QED
    BY <1>3, <1>t, <2>1, RequestsFields DEF Mine
<1> QED
  BY <1>1, <1>2, <1>3 DEF Act, Work

\* No step makes up a token.
LEMMA KnownStep ==
  ASSUME TypeInv, Known, Next
  PROVE  Known'
<1>t. /\ row \in Row /\ client \in [Call -> Client] /\ call \in [Call -> CallState]
      /\ issued \in Nat /\ issued' \in Nat /\ issued' >= issued
  BY IssuedGrows DEF TypeInv, TypeOK
<1>n. NoRow.access = 0 /\ NoClient.access = 0 /\ 0 <= issued'
  BY <1>t DEF NoRow, NoClient
<1>k. \A k \in Token : k <= issued => k <= issued'
  BY <1>t DEF Token
<1>r. /\ row.access \in Token
      /\ \A c \in Call : /\ client[c].access \in Token /\ call[c].snap.access \in Token
                         /\ call[c].token \in Token /\ call[c].refused \in Token
  BY <1>t DEF Row, Client, CallState
<1>1. ASSUME NEW c \in Call, Act(c)
      PROVE  Known'
  <2>1. row'.access <= issued'
    <3>1. CASE Migrate(c)
      <4>1. row' = row \/ row'.access = call[c].snap.access
        BY <3>1, <1>t DEF Migrate, Row
      <4> QED
        BY <4>1, <1>k, <1>r DEF Known
    <3>2. CASE SaveTokens(c)
      <4>1. call[c].client \in Call
        BY <3>2, Opened DEF SaveTokens, Unopened, Opening, Final
      <4>2. row' = row \/ row'.access = client[call[c].client].access
        BY <3>2, <1>t DEF SaveTokens, UpdateTokens, Mine, Row
      <4> QED
        BY <4>1, <4>2, <1>k, <1>r DEF Known
    <3> QED
      BY <1>1, <3>1, <3>2, <1>k, <1>r, SharedEffects DEF Known
  <2>2. ASSUME NEW o \in Call
        PROVE  client'[o].access <= issued'
    BY <1>1, <1>k, <1>r, <1>t, AccessOfClients DEF Known
  <2>3. call'[c].snap.access <= issued'
    BY <1>1, <1>k, <1>r, <1>n, SnapByAct DEF Known
  <2>4. call'[c].token <= issued' /\ call'[c].refused <= issued'
    BY <1>1, <1>k, <1>r, <1>t, TokenByAct DEF Known
  <2>5. ASSUME NEW d \in Call \ {c}
        PROVE  /\ call'[d].snap.access <= issued'
               /\ call'[d].token <= issued' /\ call'[d].refused <= issued'
    BY <1>1, <1>k, <1>r, OthersStay DEF Known
  <2> QED
    BY <2>1, <2>2, <2>3, <2>4, <2>5 DEF Known
<1>2. CASE Operate
  <2>1. row'.access \in {row.access, 0}
    <3>1. CASE WriteAccount
      BY <3>1, <1>t DEF WriteAccount, Row
    <3>2. CASE DeleteRow
      BY <3>2 DEF DeleteRow, NoRow
    <3> QED
      BY <1>2, <3>1, <3>2 DEF Operate, ReadAccount, DropClient, DeleteAccount, store
  <2>2. client' = client /\ call' = call
    BY <1>2, OperatorEffects
  <2> QED
    BY <2>1, <2>2, <1>k, <1>r, <1>n DEF Known
<1>3. ASSUME NEW o \in Call, CooldownEnds(o)
      PROVE  Known'
  <2>1. row' = row /\ call' = call /\ \A c \in Call : client'[c].access = client[c].access
    BY <1>3, <1>t DEF CooldownEnds, store, Client
  <2> QED
    BY <2>1, <1>k, <1>r DEF Known
<1>4. CASE Restart
  <2>1. row' = row
    BY <1>4 DEF Restart
  <2>2. ASSUME NEW c \in Call
        PROVE  /\ client'[c].access <= issued' /\ call'[c].snap.access <= issued'
               /\ call'[c].token <= issued' /\ call'[c].refused <= issued'
    BY <1>4, <1>k, <1>r, <1>n DEF Restart, NoCall, Known
  <2> QED
    BY <2>1, <2>2, <1>k, <1>r DEF Known
<1> QED
  BY <1>1, <1>2, <1>3, <1>4 DEF Next, Act

\* No step brings a refused token back.
LEMMA RefusalStep ==
  ASSUME TypeInv, Known, Refusal, Next
  PROVE  Refusal'
<1>t. /\ client \in [Call -> Client] /\ call \in [Call -> CallState] /\ issued \in Nat
      /\ built \subseteq Call
  BY IssuedGrows DEF TypeInv, TypeOK
<1>1. ASSUME NEW c \in Call, Act(c)
      PROVE  Refusal'
  <2>1. ASSUME NEW d \in Call, call[d].refused # 0
        PROVE  /\ call[d].client \in Call
               /\ \/ client'[call[d].client].access \in {client[call[d].client].access, 0}
                  \/ client'[call[d].client].access # call[d].refused
    <3>1. call[d].client \in built
      BY <2>1, Opened DEF Refusal
    <3>2. call[d].client \in Call /\ call[d].refused # issued + 1
      BY <3>1, <1>t DEF Known, CallState, Token
    <3>3. Build(c) => call[d].client # c
      BY <3>1 DEF Build, TypeInv, Stages, Unopened, Opening
    <3> QED
      BY <1>1, <3>2, <3>3, AccessOfClients
  <2>2. ASSUME NEW d \in Call \ {c}, call'[d].refused # 0
        PROVE  /\ call'[d].pc \notin Unopened \cup Final
               /\ call'[d].token # call'[d].refused
               /\ call'[d].pc # "forget" => client'[call'[d].client].access # call'[d].refused
    BY <1>1, <2>1, <2>2, OthersStay DEF Refusal
  <2>3. ASSUME call'[c].refused # 0
        PROVE  /\ call'[c].pc \notin Unopened \cup Final
               /\ call'[c].token # call'[c].refused
               /\ call'[c].pc # "forget" => client'[call'[c].client].access # call'[c].refused
    <3>1. CASE (\E test \in BOOLEAN : Begin(c, test)) \/ Opens(c)
      <4>1. call[c].refused # 0 /\ call[c].pc \in Unopened
        BY <2>3, <3>1, <1>t, OpensFields
      <4> QED
        BY <4>1 DEF Refusal
    <3>2. CASE Authenticates(c)
      <4>1. /\ call'[c].refused = call[c].refused /\ call'[c].token = call[c].token
            /\ call'[c].client = call[c].client /\ call'[c].pc \notin Unopened \cup Final
            /\ call[c].pc # "forget"
        BY <2>3, <3>2, <1>t, AuthenticatesFields
           DEF Authenticating, Moves, Keeps, Resumes, SendsUnauthenticated, Returns, Unopened,
               Opening, Final
      <4> QED
        BY <2>1, <2>3, <4>1 DEF Refusal
    <3>3. CASE Requests(c)
      <4>1. CASE call'[c].pc = "forget"
        <5>1. call'[c].token = 0
          BY <2>3, <3>3, <4>1, <1>t, RequestsFields DEF Returns, Final
        <5> QED
          BY <2>3, <4>1, <5>1 DEF Unopened, Opening, Final
      <4>2. CASE call[c].pc = "forget"
        <5>0. ForgetToken(c)
          BY <3>3, <4>2
             DEF Requests, CheckCooldown, ReadToken, RereadToken, Answered, Served,
                 TooManyRequests, CaptchaNeeded, Unauthorized, SetCooldown, LockCaptcha,
                 GotCaptcha, CaptchaFails
        <5>1. call'[c].pc = "ensure" /\ Moves(c)
          BY <5>0, <1>t, GotoFields DEF ForgetToken
        <5>2. call[c].client \in Call
          BY <2>1, <2>3, <5>1 DEF Moves, Keeps
        <5>3. client'[call[c].client].access = 0
          BY <5>0, <5>2, <1>t DEF ForgetToken, Client
        <5> QED
          BY <2>3, <5>1, <5>3 DEF Refusal, Moves, Keeps, Unopened, Opening, Final
      <4>3. ASSUME call'[c].pc # "forget", call[c].pc # "forget"
            PROVE  /\ call'[c].refused = call[c].refused
                   /\ call'[c].pc \notin Unopened \cup Final
                   /\ call'[c].client = call[c].client
                   /\ call'[c].token \in {call[c].token, 0, client[call[c].client].access}
        BY <2>3, <3>3, <4>3, <1>t, RequestsFields
           DEF Moves, Keeps, Returns, Mine, Unopened, Opening, Final
      <4> QED
        BY <2>1, <2>3, <4>1, <4>2, <4>3 DEF Refusal
    <3> QED
      BY <1>1, <3>1, <3>2, <3>3 DEF Act, Work
  <2> QED
    BY <2>2, <2>3 DEF Refusal
<1>2. CASE Operate
  <2>1. client' = client /\ call' = call
    BY <1>2, OperatorEffects
  <2> QED
    BY <2>1 DEF Refusal
<1>3. ASSUME NEW o \in Call, CooldownEnds(o)
      PROVE  Refusal'
  <2>1. call' = call /\ \A c \in Call : client'[c].access = client[c].access
    BY <1>3, <1>t DEF CooldownEnds, Client
  <2>2. \A c \in Call : call[c].refused # 0 => call[c].client \in Call
    BY Opened DEF Refusal
  <2> QED
    BY <2>1, <2>2 DEF Refusal
<1>4. CASE Restart
  <2>1. ASSUME NEW c \in Call
        PROVE  call'[c].refused = 0
    BY <1>4 DEF Restart, NoCall, Refusal, Unopened
  <2> QED
    BY <2>1 DEF Refusal
<1> QED
  BY <1>1, <1>2, <1>3, <1>4 DEF Next, Act

\* After a 401 a call never presents the refused token again, however many
\* calls and clients there are (RefusedTokenNotReused).
THEOREM RefusedTokensAreDropped == Spec => []RefusedTokenNotReused
<1>1. Init => TypeInv /\ Known /\ Refusal
  <2> SUFFICES ASSUME Init PROVE Known /\ Refusal
    BY InitTypeInv
  <2>1. row.access <= issued
    BY RowAssumption DEF Init
  <2> QED
    BY <2>1 DEF Init, Known, Refusal, NoCall, NoRow, NoClient
<1>2. TypeInv /\ Known /\ Refusal /\ [Next]_vars => (TypeInv /\ Known /\ Refusal)'
  <2>1. ASSUME TypeInv, Known, Refusal, UNCHANGED vars PROVE Known' /\ Refusal'
    BY <2>1 DEF vars, Known, Refusal
  <2> QED
    BY <2>1, StepInv, KnownStep, RefusalStep
<1>3. Refusal => RefusedTokenNotReused
  BY DEF Refusal, RefusedTokenNotReused
<1> QED
  BY <1>1, <1>2, <1>3, PTL DEF Spec

(***************************************************************************)
(* What is stored                                                          *)
(***************************************************************************)
\* As long as there is no client, what was read of the row is what it holds.
Faithful ==
    built = {} /\ ~ edited /\ row.live =>
        \A c \in Call : call[c].pc \in {"migrate", "build"} =>
            call[c].snap.access = row.access /\ call[c].snap.refresh = row.refresh

Saving(o) == \E c \in Call : call[c].client = o /\ call[c].pc = "save"

\* The row holds the tokens of a client on its own unless a write-back is due.
Stored ==
    \A o \in Call : Alone(o) /\ row.live /\ ~ Saving(o) =>
        row.refresh = client[o].refresh /\ client[o].access \in {0, row.access}

\* A call that is to build its client, or to write back, does that next.
LEMMA ForcedSteps ==
  ASSUME NEW c \in Call, Act(c)
  PROVE  /\ call[c].pc = "build" => Build(c)
         /\ call[c].pc = "save" => SaveTokens(c)
<1>1. CASE (\E test \in BOOLEAN : Begin(c, test)) \/ Opens(c)
  BY <1>1 DEF Opens, Begin, FindClient, ReadRow, Migrate, Build
<1>2. CASE Authenticates(c)
  BY <1>2 DEF Authenticates, Ensure, Choose, LockRefresh, LockLogin, Refreshed, RefreshExpired,
              RefreshFails, LoggedIn, LoginFails, SaveTokens
<1>3. CASE Requests(c)
  BY <1>3 DEF Requests, CheckCooldown, ReadToken, RereadToken, Answered, Served,
              TooManyRequests, CaptchaNeeded, Unauthorized, SetCooldown, ForgetToken,
              LockCaptcha, GotCaptcha, CaptchaFails
<1> QED
  BY <1>1, <1>2, <1>3 DEF Act, Work

\* A call changes the row by writing back what it read, or what its client holds.
LEMMA RowByAct ==
  ASSUME TypeInv, NEW c \in Call, Act(c), row' # row
  PROVE  /\ row'.live = row.live
         /\ \/ /\ Migrate(c) /\ call'[c].pc = "build"
               /\ row'.access = call[c].snap.access /\ row'.refresh = call[c].snap.refresh
            \/ /\ SaveTokens(c) /\ call[c].client \in built
               /\ row'.access = client[call[c].client].access
               /\ row'.refresh = client[call[c].client].refresh
<1>t. row \in Row /\ call \in [Call -> CallState]
  BY DEF TypeInv, TypeOK
<1>1. CASE Migrate(c)
  <2>1. call'[c].pc = "build"
    BY <1>1, <1>t, GotoFields DEF Migrate
  <2> DEFINE p == call[c].snap.password
  <2> DEFINE w == call[c].snap.access
  <2> DEFINE u == call[c].snap.refresh
  <2>2. row' = [row EXCEPT !.password = p, !.access = w, !.refresh = u, !.legacy = FALSE]
    BY <1>1 DEF Migrate
  <2>3. row'.live = row.live /\ row'.access = w /\ row'.refresh = u
    <3> HIDE DEF p, w, u
    <3> QED
      BY <2>2, <1>t DEF Row
  <2> QED
    BY <1>1, <2>1, <2>3
<1>2. CASE SaveTokens(c)
  <2>1. call[c].client \in built
    BY <1>2, Opened DEF SaveTokens, Unopened, Opening, Final
  <2> DEFINE w == client[call[c].client].access
  <2> DEFINE u == client[call[c].client].refresh
  <2>2. row' = [row EXCEPT !.access = w, !.refresh = u]
    BY <1>2 DEF SaveTokens, UpdateTokens, Mine
  <2>3. row'.live = row.live /\ row'.access = w /\ row'.refresh = u
    <3> HIDE DEF w, u
    <3> QED
      BY <2>2, <1>t DEF Row
  <2> QED
    BY <1>2, <2>1, <2>3
<1> QED
  BY <1>1, <1>2, SharedEffects

\* What the account API does to the row of an account that stays and that
\* nobody updates: nothing.
LEMMA RowByOperator ==
  ASSUME Operate, ~ edited', row'.live
  PROVE  row' = row /\ edited' = edited
<1>1. ~ WriteAccount
  BY DEF WriteAccount
<1>2. ~ DeleteRow
  BY DEF DeleteRow, NoRow
<1> QED
  BY <1>1, <1>2 DEF Operate, ReadAccount, DropClient, DeleteAccount, store

\* As long as there is no client, no step changes the tokens in the row.
LEMMA FaithfulStep ==
  ASSUME TypeInv, Faithful, Next
  PROVE  Faithful'
<1>t. call \in [Call -> CallState]
  BY DEF TypeInv, TypeOK
<1> SUFFICES ASSUME built' = {}, ~ edited', row'.live,
                    NEW d \in Call, call'[d].pc \in {"migrate", "build"}
             PROVE  call'[d].snap.access = row'.access /\ call'[d].snap.refresh = row'.refresh
  BY DEF Faithful
<1>1. ASSUME NEW c \in Call, Act(c)
      PROVE  call'[d].snap.access = row'.access /\ call'[d].snap.refresh = row'.refresh
  <2>1. built = {} /\ ~ edited /\ row.live
    BY <1>1, SharedEffects, ChosenByAct, RowByAct
  <2>2. ~ Build(c)
    BY <2>1 DEF Build
  <2>3. row'.access = row.access /\ row'.refresh = row.refresh
    <3>1. CASE row' # row
      BY <1>1, <2>1, <3>1, RowByAct DEF Faithful, Migrate
    <3> QED
      BY <3>1
  <2>4. CASE d # c
    BY <1>1, <2>1, <2>3, <2>4, OthersStay DEF Faithful
  <2>5. CASE d = c
    <3>1. (\E test \in BOOLEAN : Begin(c, test)) \/ Opens(c)
      BY <1>1, <2>5, <1>t, AuthenticatesFields, RequestsFields
         DEF Act, Work, Authenticating, Resumes, SendsUnauthenticated, Returns, Final
    <3>2. ReadRow(c) \/ Migrate(c)
      <4>1. ASSUME NEW test \in BOOLEAN, Begin(c, test)
            PROVE  FALSE
        <5>1. PICK f : call'[c] = [call[c] EXCEPT !.pc = "cache", !.stale = stale, !.for = f]
          BY <4>1, <1>t DEF Begin
        <5>2. call'[c].pc = "cache"
          BY <5>1, <1>t DEF CallState
        <5> QED
          BY <5>2, <2>5
      <4>2. ~ FindClient(c)
        <5>1. SUFFICES ASSUME FindClient(c) PROVE FALSE
          OBVIOUS
        <5>2. CASE cache = None
          BY <5>1, <5>2, <2>5, <1>t, GotoFields DEF FindClient
        <5>3. CASE cache # None
          BY <5>3, <2>1 DEF TypeInv
        <5> QED
          BY <5>2, <5>3
      <4> QED
        BY <3>1, <4>1, <4>2, <2>2 DEF Opens
    <3>3. CASE ReadRow(c)
      <4>1. PICK q : call'[c] = [call[c] EXCEPT !.pc = q, !.snap = row]
        BY <3>3, <2>1, <1>t DEF ReadRow
      <4>2. call'[c].snap = row
        BY <4>1, <1>t DEF CallState
      <4> QED
        BY <2>3, <2>5, <4>2
    <3>4. CASE Migrate(c)
      <4>1. call'[c].snap = call[c].snap /\ call[c].pc = "migrate"
        BY <3>4, <1>t, GotoFields DEF Migrate, Moves, Keeps
      <4> QED
        BY <4>1, <2>1, <2>3, <2>5 DEF Faithful
    <3> QED
      BY <3>2, <3>3, <3>4
  <2> QED
    BY <2>4, <2>5
<1>2. CASE Operate
  BY <1>2, OperatorEffects, RowByOperator DEF Faithful
<1>3. ASSUME NEW o \in Call, CooldownEnds(o)
      PROVE  call'[d].snap.access = row'.access /\ call'[d].snap.refresh = row'.refresh
  BY <1>3 DEF CooldownEnds, store, history, Faithful
<1>4. ~ Restart
  <2>1. Restart => call'[d].pc \in {"idle"} \cup Final
    BY DEF Restart, NoCall, Final
  <2> QED
    BY <2>1 DEF Final
<1> QED
  BY <1>1, <1>2, <1>3, <1>4 DEF Next, Act

\* Every step keeps the row of a client on its own up to date.
LEMMA StoredStep ==
  ASSUME TypeInv, Faithful, Stored, Next
  PROVE  Stored'
<1>t. call \in [Call -> CallState] /\ client \in [Call -> Client] /\ built \subseteq Call
  BY DEF TypeInv, TypeOK
<1> SUFFICES ASSUME NEW o \in Call, Alone(o)', row'.live, ~ Saving(o)'
             PROVE  row'.refresh = client'[o].refresh /\ client'[o].access \in {0, row'.access}
  BY DEF Stored
<1>a. built' = {o} /\ ~ edited' /\ \A d \in Call : call'[d].pc # "build"
  BY DEF Alone
<1>1. ASSUME NEW c \in Call, Act(c)
      PROVE  row'.refresh = client'[o].refresh /\ client'[o].access \in {0, row'.access}
  <2>0. ~ edited /\ row.live
    BY <1>1, <1>a, SharedEffects, RowByAct
  <2>1. CASE Build(c)
    <3>1. c \notin built
      BY <2>1 DEF Build, TypeInv, Stages, Unopened, Opening
    <3>2. built = {} /\ o = c
      BY <2>1, <3>1, <1>a DEF Build
    <3>3. row' = row /\ call[c].snap.access = row.access /\ call[c].snap.refresh = row.refresh
      BY <2>0, <2>1, <3>2 DEF Build, Faithful
    <3>4. client'[c].access = call[c].snap.access /\ client'[c].refresh = call[c].snap.refresh
      BY <2>1, <1>t DEF Build
    <3> QED
      BY <3>2, <3>3, <3>4
  <2>2. CASE ~ Build(c)
    <3>1. built = {o}
      BY <1>1, <1>a, <2>2, SharedEffects
    <3>2. Alone(o)
      BY <1>1, <1>a, <2>0, <2>2, <3>1, OthersStay, ForcedSteps DEF Alone
    <3>3. CASE SaveTokens(c)
      <4>1. call[c].client = o
        BY <3>1, <3>3, Opened DEF SaveTokens, Unopened, Opening, Final
      <4>2. row'.access = client[o].access /\ row'.refresh = client[o].refresh
        BY <2>0, <3>3, <4>1 DEF SaveTokens, UpdateTokens, Mine
      <4>3. client' = client
        BY <3>3 DEF SaveTokens
      <4> QED
        BY <4>2, <4>3
    <3>4. CASE ~ SaveTokens(c)
      <4>1. row' = row
        BY <1>1, <1>a, <3>4, RowByAct
      <4>2. ~ Issues(c)
        <5>1. SUFFICES ASSUME Issues(c) PROVE FALSE
          OBVIOUS
        <5>2. Goto(c, "save") /\ call[c].pc \notin Unopened \cup Final
          BY <5>1 DEF Issues, Refreshed, LoggedIn, Unopened, Opening, Final
        <5>3. call'[c].client = o /\ call'[c].pc = "save"
          BY <5>2, <3>1, <1>t, Opened, GotoFields DEF Moves, Keeps
        <5> QED
          BY <5>3 DEF Saving
      <4>3. ~ Saving(o)
        <5>1. call[c].pc # "save"
          BY <1>1, <3>4, ForcedSteps
        <5> QED
          BY <1>1, <5>1, OthersStay DEF Saving
      <4>4. client'[o].refresh = client[o].refresh /\ client'[o].access \in {0, client[o].access}
        <5>1. CASE SetCooldown(c) \/ ForgetToken(c)
          BY <5>1, <1>t DEF SetCooldown, ForgetToken, Client
        <5> QED
          BY <1>1, <2>2, <4>2, <5>1, SharedEffects
      <4> QED
        BY <2>0, <3>2, <4>1, <4>3, <4>4 DEF Stored
    <3> QED
      BY <3>3, <3>4
  <2> QED
    BY <2>1, <2>2
<1>2. CASE Operate
  <2>1. row' = row /\ edited' = edited /\ built' = built /\ client' = client /\ call' = call
    BY <1>2, <1>a, OperatorEffects, RowByOperator
  <2> QED
    BY <2>1 DEF Stored, Alone, Saving
<1>3. ASSUME NEW q \in Call, CooldownEnds(q)
      PROVE  row'.refresh = client'[o].refresh /\ client'[o].access \in {0, row'.access}
  <2>1. row' = row /\ edited' = edited /\ built' = built /\ call' = call
    BY <1>3 DEF CooldownEnds, store, history
  <2>2. client'[o].refresh = client[o].refresh /\ client'[o].access = client[o].access
    BY <1>3, <1>t DEF CooldownEnds, Client
  <2> QED
    BY <2>1, <2>2 DEF Stored, Alone, Saving
<1>4. ~ Restart
  BY <1>a DEF Restart
<1> QED
  BY <1>1, <1>2, <1>3, <1>4 DEF Next, Act

\* While a process has built a single client and no update was written, the row
\* holds the tokens of that client whenever its mutex is free (LoneClientStored).
THEOREM LoneClientIsStored == Spec => []LoneClientStored
<1> DEFINE IInv == TypeInv /\ MutexGuardsTokens /\ Faithful /\ Stored
<1>1. Init => IInv
  <2> SUFFICES ASSUME Init PROVE MutexGuardsTokens /\ Faithful /\ Stored
    BY InitTypeInv
  <2> QED
    BY DEF Init, MutexGuardsTokens, Faithful, Stored, Alone, NoCall, Locked
<1>2. IInv /\ [Next]_vars => IInv'
  <2>1. ASSUME Faithful, Stored, UNCHANGED vars PROVE Faithful' /\ Stored'
    BY <2>1 DEF vars, Faithful, Stored, Alone, Saving
  <2> QED
    BY <2>1, StepInv, MutexStep, FaithfulStep, StoredStep
<1>3. IInv => LoneClientStored
  <2> SUFFICES ASSUME IInv, NEW o \in Call, Alone(o), row.live, mu[o] = None
               PROVE  row.refresh = client[o].refresh /\ client[o].access \in {0, row.access}
    BY DEF LoneClientStored
  <2>1. ~ Saving(o)
    BY DEF Saving, MutexGuardsTokens, Locked
  <2> QED
    BY <2>1 DEF Stored
<1> QED
  BY <1>1, <1>2, <1>3, PTL DEF Spec

=============================================================================
