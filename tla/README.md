# PikLeech: a TLA+ model of its scheduling, offline tasks, tokens and web pages

PikLeech is a Go server (with a React front end) that lets many users share a
pool of PikPak accounts. A user submits a link; the server picks an account,
creates an offline download task at PikPak, follows it, and cleans up after it.
This directory models what the server promises while submissions, tickers,
operators and restarts interleave, and what the web pages promise while calls
to it are lost, late or answered out of order. Paths below are relative to `src/`.

## 1. Inventory

| Component | State | Operations | Correct when |
|---|---|---|---|
| Account scheduler `internal/scheduler` | round-robin cursors, one mutex per account, user-folder cache | `GetAvailableAccounts`, `SelectAccount`, `GetOrCreateUserFolder`, `SubmitOfflineTask` | one attempt per account at a time; failover visits each account once, ends, and passes over no usable account; a created task is reported; each failure is booked as what it is; shares are even |
| Account service `internal/account` | `pikpak_accounts`, cached clients | create, update, delete, test, sync, initialise, status and quota statements, daily reset, token write-back | counts and dates agree across midnight; exhausted accounts come back; the newest tokens survive |
| Offline tasks `internal/offline` | `offline_tasks`, `idempotency_keys`, wake channel of capacity one, cleaner | submit (single, batch), retry, cancel, delete, poll, clean, list | an answered request is recorded and replayable; rows follow PikPak; finished rows stay finished; expired tasks are cleaned |
| PikPak client `internal/pikpak` | tokens, device id, 429 cooldown of a client object, its mutex | requests with refresh and login, offline and file calls, error classification | one call at a time spends the refresh token; a refused token is not presented again; new tokens reach the row; every call returns |
| Settings `internal/settings` | `system_settings`, a cached copy | get, update | a read after an update sees it |
| Users and sessions `internal/auth` | `users`, refresh sessions, signed access tokens | set-up, login, refresh, user administration | an administrator always remains; roles are current |
| API keys `internal/apikey` | `api_keys` | create, toggle, delete, look up | a disabled key is refused |
| File aggregation `internal/fileagg` | file cache table | list, cached list, delete, move | the cache does not show what was deleted |
| Streaming `internal/stream` | none | HTTP Range proxy | pure I/O |
| Dashboard, audit log | query results, append-only table | read, append | - |
| Encryption, configuration, database | secret key file, schema | boot | the key that encrypted the tokens is the key after a restart |
| HTTP API `internal/api`, process `cmd/server` | router, tickers (poller 2 s, daily reset 10 min, cleaner 30 min) | handlers; boot; shutdown | - |
| API calls `web/src/lib/api.ts` | calls under way | `request` | - |
| File browser `pages/FilesPage.tsx` | path, keyword, files, selection, flags, dialogs | navigate, search, select, delete, rename, preview | flags match calls; the local edits agree with the drive; what is ticked is shown |
| Task watcher (in `FilesPage.tsx`) | remembered active tasks, polling loop, notice | poll, check after a submission, announce | one loop at a time; the end of a known task is announced |
| Account tab `pages/AccountsPage.tsx` | the last listing, two spinners, a form | list, test, initialise, reset, enable, delete, create, edit | flags match calls; only shows what the server listed, and in the end what there is |
| API key tab `pages/ApiKeysPage.tsx` | the last listing, the dialog with a new key | list, create, enable, delete | the only copy of a key stays until it is closed |
| Overview, policy, users and profile tabs `pages/SettingsPage.tsx` | lists, filter, forms, dialogs, flags | poll, filter, cancel, retry, delete; load, save, clean; create, delete, reset; save | the monitor catches up; a save writes only what was edited; the own user is not offered for deletion |
| Application `App.tsx`, `LoginPage.tsx`, `NewOfflineModal.tsx` | signed-in user and role, page, dialog | check, login, logout, submit | the user shown is the one the cookie speaks for; each submission is reported once |
| Video player, audit page | player controls, a list | - | - |

Interactions: a handler calls the offline service, which calls the scheduler,
which calls the account service (rows, clients), the settings and PikPak; then
the offline service writes its row and signals the poller. The reset ticker
writes the rows the scheduler reads. The poller and the cleaner use the same
client objects as the submissions and write the same task rows as the cancel,
delete and initialise handlers. A web page sends calls and goes on with what its
handler captured before the await; pages do not share hooks, and meet in the
server's tables, the browser's cookie and the application's user, page and
submission count. All processes share one SQLite database (each
statement atomic), and almost nothing spans two statements in a transaction.

What is hard: everything read before a network call and used after it (candidate
lists, status, list results, idempotency keys); dates computed before the
statement that stores them; account locks over retries; client contexts that
end in the middle of a submission; restarts between two statements; and the
promises about the long run (a submission returns, an exhausted account comes
back, the end of a download is noticed). In the browser: answers that come after the
user has gone elsewhere, flags and dialogs shared by several calls, local edits
of a list that is reloaded meanwhile, and timers whose effect has been cleaned
up. `PROJECT.json` lists each such place
with its line and the properties that watch it.

## 2. Modules

| Module | What it is |
|---|---|
| `AccountPool` | Pure: an account row, every UPDATE statement as a function on rows, and account selection as operators on sets |
| `Scheduler` | EXTENDS `AccountPool`: concurrent `SubmitOfflineTask` calls, the reset ticker, midnight, operators, restarts |
| `SchedulerProofs` | Theorems about `Scheduler` |
| `MCScheduler` | Instances of `Scheduler` |
| `OfflineTasks` | Requests with and without an Idempotency-Key, the poller, PikPak's task list, the cleaner, cancel/delete/initialise, restarts |
| `OfflineTasksProofs` | Theorems about `OfflineTasks` |
| `MCOfflineTasks` | Instances of `OfflineTasks` |
| `PikPakClient` | One account: the calls of `DoRequest` and `TestAccount`, the client objects with their mutex and tokens, the credential columns, `UpdateAccount`, `DeleteAccount`, restarts |
| `PikPakClientProofs` | Theorems about `PikPakClient` |
| `MCPikPakClient` | Instances of `PikPakClient` |
| `ApiCalls` | What every tab's calls have in common: slots, states, answers for a component that is gone |
| `FilesPage`, `FilesPageProofs`, `MCFilesPage` | The file browser over the drive, and theorems |
| `TaskWatcher` | The file browser's watcher of offline tasks |
| `AccountsPage`, `AccountsPageProofs` | The account tab and the table of accounts, and theorems |
| `ListView` | Abstract: what a page with a list promises; `AccountsPage` implements it |
| `ApiKeysPage`, `ApiKeysPageProofs` | The API key tab and the table of keys, and theorems |
| `OverviewTab` | The task monitor of the settings page |
| `PolicyTab` | The settings form |
| `UsersTab` | User administration and the profile form |
| `WebSession` | The application: session, pages, submission dialog |
| `WebPages`, `MCWebPages` | The account, key, policy and users tabs and the session in one specification |
| `WebPagesProofs` | Theorems about the policy tab, the users' tabs, the session, and the composition in `WebPages` |
| `PollingParts`, `MCPollingParts` | The overview tab and the watcher in one specification |
| `TaskWatcherProofs` | Theorems about the watcher, the overview tab, and the two of them in `PollingParts` |

### Scheduler

`sub[s]` holds the local variables of one call of `SubmitOfflineTask`; `pc`
names the points at which another goroutine may run:

    begin -> reset -> list -> lock -> client -> call -> answered -> write -> done
      ^                                 |                 |           |
      +---------------------------------+-----------------+-----------+   (failover)

| Action | Code (`internal/scheduler/scheduler.go` unless said otherwise) |
|---|---|
| `CaptureDay`, `ResetQuotas` | `AutoResetDailyQuotas`: the date is formatted in Go, then the statement runs (`account/service.go:385`) |
| `Select`, `GiveUp` | `SelectAccount`: filters, round robin; or the error of `:311-320` |
| `LockAccount` | the per-account mutex `:322-326` |
| `GetClient`, `NoClient` | `account.Service.GetClient`, cached or built; it fails for a row that is gone, and for a `proxy_url` no client can be built with (`buildable`), which nothing validates before (`client.go:108-145`) |
| `RefuseLocally`, `Reply` | `doRequest`: local cooldown refusal, or PikPak's answer; up to three calls for network errors, with the lock held |
| `CaptureWriteDay`, `CountTask`, `MarkExhausted` | `IncrementDailyTaskCount` and `UpdateStatus`, date first, statement second |
| `CoolDown`, `MarkFailed`, `FailOver`, `Fail` | the switch on the error class `:396-429` |
| `Tick`, `TickReset`, `Midnight` | the reset goroutine of `cmd/server/main.go`, and UTC midnight |
| `CreateAccount` ... `OtherTraffic429`, `UpdateSettings` | the handlers and other users of the same clients |
| `Restart` | the table survives; locks, cursors, clients, cooldowns and calls do not |

`client[a].gen` counts the client objects built for an account: a cooldown
belongs to an object, so dropping the cached client drops the cooldown for
later callers while an older call still runs into it. `steady[s]` is a history
variable: the accounts that were usable, with a `proxy_url` that a client can be
built with, without a break since `s` began (`ServiceableAccounts`).

### OfflineTasks

`req[r]` is one call of `SubmitSingleLink`; the task it creates bears its name.
`row` and `key` are the two tables, `remote` is PikPak (phase, list entry,
file), `poll` and `clean` hold the local variables of `pollActiveTasks` and
`CleanExpiredTasks`, `wake` is the channel. Each network call separates what
was read from what is written: `Query`/`List`/`Apply` for a poll,
`StartCall`/`DropRemote`/`FinishCall` for cancel and delete,
`StartCleaning`/`DeleteFile`/`MarkCleaned` for the cleaner,
`WipeRemote`/`WipeRows` for initialisation. The answer to a creation names a
phase and a progress: one that is complete or full (`:141`) stores the row as
`COMPLETE`, though a task at progress 100 may run on and fail; it is not polled
again, and is cleaned like the others. `StatusMatchesOutcome` therefore takes
either answer as PikPak saying that the task is complete (`SaidComplete`). A client may leave at any point of
its request (`Disconnect`): the context is then done, so later statements of
the request fail, and the code logs that and goes on. The scheduler enters by
what `Scheduler` establishes (`AcknowledgedTaskReturned`): a success is one
created task, a failure none.

### PikPakClient

The third model goes below the other two: there a call of a client is one
answer, here it is what produces that answer. `call[c]` holds the local
variables of one call; a call that builds a client lends it its name.

    cache -> read -> (migrate) -> build -> check -> token -> ensure -> choose
      -> lockRefresh -> refresh -> save -> reread -> send -> (forget -> ensure ...) -> ok | failed

| Action | Code |
|---|---|
| `FindClient`, `ReadRow`, `Migrate`, `Build` | `GetClient`: the cache, the row, re-encryption with the current secret, the new client put in the cache (`account/service.go:247-327`) |
| `CheckCooldown`, `ReadToken`, `RereadToken` | the start of `doRequest`, each under the mutex by itself (`client.go:213-231`) |
| `Ensure`, `Choose` | `EnsureAuthenticated`; the refresh token is looked at without the mutex (`client.go:186-206`) |
| `LockRefresh`, `Refreshed`, `RefreshExpired`, `RefreshFails` | `RefreshToken`, which keeps the mutex over its network call and over a login (`auth.go:142-212`) |
| `LockLogin`, `LoggedIn`, `LoginFails` | `Login` and `loginLocked` (`auth.go:134-279`) |
| `SaveTokens` | `onTokenUpdated`, still under the mutex: `UpdateTokens` on the row (`account/service.go:329`) |
| `Served`, `TooManyRequests`, `CaptchaNeeded`, `Unauthorized` | PikPak's answers to a request (`client.go:261-320`) |
| `SetCooldown`, `ForgetToken`, `LockCaptcha`, `GotCaptcha`, `CaptchaFails` | what `doRequest` does about them; the retry is the flag `retried` |
| `ReadAccount`, `WriteAccount`, `DropClient` | `UpdateAccount`: read, UPDATE, drop the cached client (`account/service.go:89-144`) |
| `DeleteAccount`, `DeleteRow` | drop the client, then delete the row (`:146-158`) |
| `Begin`, `Restart`, `CooldownEnds` | a caller arrives; the process restarts; 60 s pass |

Tokens are numbers in the order PikPak issues them, 0 is the empty string.
`refused`, `repeats`, `edited`, `stale` and `events` are history.

### The web pages

All page models cut a handler where it awaits. The first half is an action of
the user or of a timer that sends a call; `Serve...` (`Answer` and `Refuse` in
`WebSession`) is its execution by the server, which may also fail after it took
effect; and an action named for the end of the handler (`Loaded`, `Tested`,
`KeyCreated`, ...) is everything that runs once the answer is there, up to the
next await. A call carries what its closure captured. Hooks are the fields of
one record per page; `mine` turns false when the component that sent a call is
unmounted, since setting its state has no effect then, while callbacks of the
parent (`onSuccess`, `onUpdateUsername`, `handleLogout`) still act. Guards are
what the page offers: a button that is rendered and not disabled, and not
covered by a dialog.

| Module | State | Actions, and their code |
|---|---|---|
| `FilesPage` | `page` (hooks), `remote` (the drive), `calls` | `OpenFolder`, `OpenBreadcrumb`, `Search` with the effect of `:95-107` (`Show`); `DeleteSingle`/`Deleted`, `BatchDelete`/`BatchDeleted`, `ConfirmRename`/`Renamed`, `Preview`/`Previewed`; `Check`/`Checked`/`Refreshed` for the listing after a task's end; `DelayedReload`; `Leave`, `Return` |
| `TaskWatcher` | `watch` (refs, timer, notice), `checks` (calls of `checkTaskStatus`), `status` (tasks) | `Poll`, `Submit`, `ChangeFolder` (the effects `:152-185` with their cleanups), `TasksBack`, `FilesBack`, `TasksFailed` |
| `AccountsPage` | `accountsPage`, `pool`, `accountCalls` | one action per button, `Tested`, `Initialized`, `Saved`, ... for the second halves, which all reload the list |
| `ApiKeysPage` | `keysPage`, `keyTable`, `keyCalls` | `SubmitKey`/`KeyCreated`, `CloseKeyDialog`, `ToggleKey`, `DeleteKey`/`KeyUpdated` |
| `OverviewTab` | `overview`, `taskRows`, `overviewCalls` | `ShowOverview` (effect and refresh), `PollOverview` (interval), `OverviewButton`/`RowUpdated`/`RowDeleted`, `CleanupLoads` |
| `PolicyTab` | `policyTab`, `policy`, `policyCalls` | `OpenPolicy`/`PolicyLoaded`, `EditPolicy`, `SavePolicy`/`PolicySaved`, `TriggerCleanup`/`CleanedUp` |
| `UsersTab` | `usersTab`, `userTable`, `userCalls` | `CreateUser`, `DeleteUser`, `ResetPassword`, `SaveProfile` and their second halves |
| `WebSession` | `app`, `cookie`, `sessionCalls` | `SignIn`, `SignOut`, `SaveName`, `SubmitLinks`, `Navigate`, `ReloadApp`; `Answer` changes the cookie, the second halves the application |

Two parts of one page are separate models where they share nothing but being
mounted: `Check` in `FilesPage` is `checkTaskStatus` reduced to the listing it
may ask for, of which `TaskWatcher` has the rest; the cleanup of `PolicyTab`
ends in a load of the overview, which is `CleanupLoads`; `WebSession` has the
profile form's effect on the session, `UsersTab` its effect on the user list.

`ListView` is the abstract specification of a page that shows a list: it shows
nothing, or a listing taken since the page was opened, unaltered, in any order.
`AccountsPage!AccountsView` maps `pool`, the answered listings on their way and
the shown list to it.

`WebPages` and `PollingParts` put parts together that share no variable and of
which only one is on the screen: a behaviour chooses one part at its start. That
keeps the number of model-checking runs small; it does not claim to check
interactions, of which there are none in these variables.

History variables: `orderly` and `lone` (FilesPage), `steady` (AccountsPage),
`calm` and `edited` (PolicyTab), `prompt` (UsersTab), `inTurn` and `succeeded`
(WebSession), `noticed` (TaskWatcher). Most record that a condition of a
property still holds: the code promises nothing, for instance, about a list
whose load failed.

### Abstractions

- A single SQL statement is atomic and succeeds, except under a cancelled
  request context in `OfflineTasks`. In `Scheduler` a database error is left out.
- `SelectAccount` reads accounts, settings and cursor at one point.
  The user folder only chooses the parent of the task and is left out.
- Free space is reduced to the thresholds the rules compare it with: `MinFree`
  (the setting) and `NearFree` (200 MB). Cursors are kept modulo `CursorMod`, a
  common multiple of all rotation sizes (`CursorAssumption`).
- `TestAccount` and `InitializeAccount` write the account row in more than one
  statement; those column writes are taken together. Deleting an account is
  kept in two steps.
- In `OfflineTasks` a created task carries a task id (the poller leaves out rows
  without one) and a file id once it is complete, a list
  reports every task of the account (the code asks for the first hundred), and
  an account whose list fails waits for the next poll.
- In `PikPakClient` every stored column decrypts with the current or the former
  secret and the proxy URL is valid, so building a client succeeds; `password`
  stands for a user name and a password that are both there. A login is
  answered with an access and a refresh token, a refresh with an access token
  and possibly a refresh token. The value of a captcha token, and the captcha
  requests inside a login, whose results the code ignores, are left out.
  Account ids are never reused (`AUTOINCREMENT`), so a deleted row stays
  deleted. One operator edits the account at a time, and an update adds or
  replaces credentials but blanks none. `TestAccount` enters with
  its refresh, goes on to `GetStorageAbout`, and its status columns are in
  `Scheduler`.
- In `Scheduler` a row is `buildable` or not; `CreateAccount` and `UpdateAccount`
  choose it freely. What a proxy does to a client that was built is in the answers.
- The server's half of a page model is one step per call. A folder of the drive is
  listed live; the merged root may lack what an account that failed would have
  listed. A search is answered from `file_cache`, of which nothing is assumed: it
  finds any items under its name, also ones that are gone, and may miss any
  (`Cached`). `OrderlyViewExact` is about folders only. The settings copy in memory
  is taken to agree with its table.
- In the page models names, passwords, links and figures are members of small
  sets or left out. An account row keeps the columns the page acts on. Messages
  and error texts are left out; a confirmation counts as given. The permissions of other users are not modelled: the
  settings tabs are those of an administrator.

## 3. Runs

`expect: pass`:

| Run | Instance | Shows |
|---|---|---|
| `operator` | 2 accounts (the second may be yet unborn, or healthy with an unusable `proxy_url`), 2 submissions, answers ok/quota/rate/proxy, one event (operator action, other traffic or restart), one day (4.4 million states) | the lock is held by exactly the call between Lock and Unlock; who gives up has called every account that was usable and could be given a client throughout; acknowledged tasks are returned; statuses have their cause |
| `failover` | 2 accounts of which one is below the minimum free space, one submission that states a size, answers ok/quota/proxy/network/other, midnight, fairness | counts stay within the tasks of the row's day (on an account refused for quota, within all its tasks), one visit per account, every submission returns, exhausted accounts recover |
| `rotation` | 3 equal accounts, 4 concurrent submissions | shares differ by at most one |
| `requests` | 2 requests, 1 key, 1 account, one event (operator action, disconnection or restart) | answered tasks are recorded, an answered key creates nothing more, no wake-up is lost, rows say what happened, finished rows are not reopened by a late poll |
| `tasks` | 2 requests on 1 or 2 accounts, 1 cleaner, no keys, fairness | the end of a listed download is noticed, expired tasks are cleaned |
| `tokens` | 2 calls on one account, up to 3 tokens, from three kinds of rows, one event (update, deletion or restart) | the mutex is held by exactly the call at work on the tokens, a refused token is not presented again, the row holds a lone client's tokens, a request is repeated at most once |
| `returns` | the same without events, fairness | every call returns |
| `files` | a folder with a video, a picture beside it; 2 calls in flight, 3 acts of the user or the watcher, fairness (580 051 states) | flags stand for calls under way; after calls served in order the page shows the drive exactly; what is ticked is shown; no spinner stays |
| `browser` | 2 calls; accounts: 2 accounts, 3 acts; keys: 2 keys, 5 acts; policy: 2 fields with 2 values, 5 acts; users: 2 users, 3 names, 6 acts; session: 2 users, 7 acts (542 187 states) | spinners and disabled buttons stand for calls; the settled account list is the table's; the account tab implements `ListView`; a shown key is not replaced; unedited settings are the ones in force; the own row is never sent for deletion; the settled user is the cookie's; each submission is reported once |
| `polling` | overview: 2 rows, 2 filters, 2 calls, 2 acts; watcher: 2 tasks, 3 checks, 2 acts, fairness (119 153 states) | one polling loop; known tasks' ends are announced; the monitor ends up with the rows of its filter |

`expect: violation` (a document or comment and the code disagree; quotations
are under `findings` in `PROJECT.json`):

| Run | What TLC finds |
|---|---|
| `repeat` | two concurrent requests with one Idempotency-Key create and return two tasks |
| `cancelled` | a poll that listed the task before the cancellation sets it back to `RUNNING` or `COMPLETE` |

Further statements of the code that do not hold. They stay in their modules as
properties with a remark, in no run; TLC refutes each when its name is added to
the configuration named here.

| Property | Configuration | What the code says and does |
|---|---|---|
| `Scheduler!ExhaustedMeansQuota` | `MCScheduler_failover.cfg` | `scheduler.go:22` says all accounts have exhausted their quota; the same error is returned when they only had network errors |
| `Scheduler!CountRestartsDaily` | `MCScheduler_failover.cfg` | `account/service.go:384` says that the daily counts are reset when a new day has arrived; a submission that began before midnight and is refused for its quota after it dates the row with the new day and leaves the old count (`service.go:353`), and the reset, which looks at the date, passes over it |
| `Scheduler!CoolingAccountSkipped` | `MCScheduler_operator.cfg` | `scheduler.go:104` checks the 429 cooldown in a column that nothing writes: the cooldown lives in the client object |
| `PikPakClient!UpdateApplies` | `MCPikPakClient_tokens.cfg` | `account/service.go:137` says changes of credentials apply immediately; the old access token stays and is presented |
| `FilesPage!RefreshIsOfCurrentFolder` | `MCFilesPage_files.cfg` | `FilesPage.tsx:137` says the files of the current folder are refreshed; it is the folder of when the check began |

Bounds. Two submissions and two accounts are the least with which a lock is
contended, a list goes stale between selection and call, a failover has
somewhere to go, and one submission marks an account another has selected;
`rotation` needs three accounts for a turn that is neither "stay" nor "the other
one". `MaxEvents = 1` puts one operator action or restart at every point of
every interleaving of two submissions. `MaxDay = 1` has one midnight, which is
what separates "captured before" from "written after". `Attempts = 3` is the
code's number. Two requests are the least for a key to be shared; a third would
repeat the roles. Two calls on one account are the least with which the mutex
is contended, two clients exist at once, and one call's 401 clears what the
other has obtained; `MaxTokens = 3` is the stored token and two new ones, so
that a refresh can follow a refresh. In the browser two calls are the least that
can be answered out of order or share a flag; the acts suffice for the longest
stories the properties are about (open, submit, close, open again, submit, for a
key or a dialog; type, save, change tab and delete for the users; sign in, save,
leave, sign out for the session). Three checks are the loop's, one of a loop
that was ended and one of a submission. Deadlock checking is off: the system
stops when every call has returned and nobody acts any more.

Fairness. In `Scheduler`: a submission that can step does (goroutines are
scheduled, HTTP requests time out, a mutex wait ends because its owner's
attempt does), the reset ticker fires and completes, midnight comes. Nothing
is assumed of users, operators or cooldowns. In `OfflineTasks`: the
goroutines of the poller and the cleaner are scheduled and their tickers fire, one weak
fairness condition each; strong fairness only
says that PikPak, asked again and again, in the end lists an account and lets
the cleaner get at a client. Downloads need not progress and operators need
not act. In `PikPakClient`: a call that can step does, one weak fairness
condition per call and none on a particular answer. A step that needs the mutex
is enabled only while it is free; weak fairness suffices because every holder
lets go and a call takes finitely many steps, so the others cannot keep the
mutex busy for ever (Go's mutex, moreover, hands itself to a waiter that starves).
In `FilesPage`: the server serves and the network delivers or fails every call,
which is what `fetch` and the browser's own time limits give; nothing is assumed
of the user. In `PollingParts`: timers fire, calls are answered, and strong
fairness says that a list asked for again and again does not fail for ever.

## 4. Proofs

**`SchedulerProofs`** proves for any accounts, submissions, sizes, answers, days
and numbers of events, from `PoolAssumption` and `SchedulerAssumption`:

| Theorem | Statement |
|---|---|
| `TypeCorrect` | `Spec => [](TypeOK /\ AccountChosen)` |
| `AcknowledgedTaskIsReturned` | `Spec => []AcknowledgedTaskReturned` |
| `NoSecondVisit` | `Spec => OneVisitPerAccount`, an action property |
| `LocksGuardAccounts` | `Spec => []LockGuardsAccount` |
| `OneCallAtATime` | `Spec => []OneCallPerAccount` |
| `FailuresKeepTheirCause` | `Spec => []StatusHasCause` if no initial row is already blamed |
| `NoSteadyAccountMissed` | `Spec => []SteadyAccountsCalled` |
| `CountsAreOfTheDay` | `Spec => []CountOfTheDay` if the initial counts are zero |
| `AlikeAccountsShareEvenly` | `Spec => []EvenRotation` if every creation is answered ok, no operator acts and the initial accounts are alike |

The last two also use `PoolAssumption` for the finiteness of `Account` and
`CursorAssumption` for the cursor.

The argument. `TypeOK` alone is not inductive: a submission past its selection
indexes tables by `sub[s].acc`, so `AccountChosen` adds that this account is in
its attempted set; together they are `TypeInv`. `SoundInv` says of each
submission that only tried accounts have answers, that an account other than
the current one was left with an answer that is failed over, that the current
account has not been heard before its call (or only with a network error
between retries), and which answers go with which result; it is inductive
relative to `TypeInv`. `AcknowledgedTaskReturned` and `OneVisitPerAccount`
follow. `LockGuardsAccount` is inductive relative to `TypeInv` by itself.
`StatusHasCause` needs two lemmas that range over all steps: `AnswersStand` (a
quota or proxy answer is never overwritten, by `SoundInv`) and
`StatusesWritten` (a step leaves a status or writes one that the answer of that
step explains). `SteadyAccountsCalled` needs two more parts:
`SteadyServed`, that the history of a submission only names accounts that are
usable now and whose client can be built, so that `NoClient` is never about one
of them, and `MetInv`, that a steady account it has tried was heard, unless it is
the one at hand; when a submission gives up, no candidate is left, so the
steady ones are tried.

`CountOfTheDay` is not inductive: between PikPak's answer and the counting
statement a task exists that is not counted. `CountInv` bounds a row's count by
the tasks *booked*, those whose submission is past that statement, and by those
booked under the row's date while the account has not refused for its quota, and
keeps the set of created tasks finite (also for infinitely many submissions, of
which a step moves one). `CountsWritten` shows what a step may do to a row:
leave its count and date or put the count back to zero, date it when it is
marked exhausted, or count a task; `TaskBooked` that the last books a task that
was not booked, under the date it writes. A refusal stands (`AnswersStand`), so the
exception lasts. The hypothesis on the counts is needed because a row of an
earlier run counts tasks the history does not have.

`EvenRotation` needs the dealer's invariant `Dealt`: there are `n` and `r` such
that each account was dealt `n` tasks, and those of ranks `1` to `r` one more,
and the cursor is `r` modulo the number of accounts. `Calm` says why each
submission selects once and among all of the accounts: they stay alike, nothing
cools down, and a submission that has not selected has tried nobody. That a
cursor kept modulo `CursorMod` points at the next rank is `CursorTurned`, from
`CursorAssumption`. The hypotheses are those of the run `rotation`, for any
accounts, priorities, free space and requested sizes that fit. Accounts that are
alike all have a `proxy_url` a client can be built with.

**`OfflineTasksProofs`** proves for any requests, keys, accounts, cleaners and
numbers of events, from `TasksAssumption`:

| Theorem | Statement |
|---|---|
| `TasksTypeCorrect` | `Spec => []TypeOK` |
| `AnswersAreRecorded` | `Spec => []AnsweredTaskRecorded` |
| `NoWakeIsLost` | `Spec => []NoLostWake` |
| `RowsMatchOutcomes` | `Spec => []StatusMatchesOutcome` |
| `FinishedStaysFinished` | `Spec => FinishedNotReopened`, an action property |
| `AnsweredKeysCreateNothing` | `Spec => AnsweredKeyCreatesNothing`, an action property |

All follow from one inductive invariant, `TaskInv`. The promises lean on each
other: a late poll does no harm because the tasks it still has to write
(`Polled`) and those a cleaner still has to mark (`Cleaned`) are apart, and
because what either was told of a phase is final and what the answer to a
creation said stays said (`SaidStays`); a stored key names a row
(`Recorded`) because the row exists before the key is saved (`Unborn` says it
does not exist before that); and `Polled` excludes what `NoLostWake` still owes
to the next poll. One lemma per variable says which steps change it and how.

**`PikPakClientProofs`** proves for any number of calls, initial rows, tokens
and events, from `ClientAssumption` and `RowAssumption`:

| Theorem | Statement |
|---|---|
| `TypeCorrect` | `Spec => []TypeOK` |
| `TokensAreGuarded` | `Spec => []MutexGuardsTokens` |
| `RefusedTokensAreDropped` | `Spec => []RefusedTokenNotReused` |
| `LoneClientIsStored` | `Spec => []LoneClientStored` |

`TypeOK` is strengthened to `TypeInv` by `ClientChosen` (past `GetClient` a call
has a client that was built) and `Stages` (where a call stands tells what it
authenticates for, and whether it has repeated its request). `MutexGuardsTokens`
is inductive relative to it. For refused tokens, `Known` says that nothing is
numbered beyond the newest token and `Refusal` that a refused token is out of
the hands of the call and, once cleared, out of its client: a fresh token is
never the refused one. For the stored tokens, `Faithful` covers the time before
the first client (what was read of the row is what it holds) and `Stored` the
time after (the row agrees unless a write-back is due); a due write-back holds
the mutex, by `MutexGuardsTokens`.

**`AccountsPageProofs`** proves for any accounts, priorities, calls and acts:
`AccountsSpec => []AccountsTypeOK` (`AccountsTypeCorrect`) and `AccountsSpec =>
AccountsNeverInvented` (`AccountsNeverInventedHolds`), the refinement of
`ListView`. The type invariant is inductive by itself; each step of the page maps
to `Change` (the server), `Take` (a listing answered), `Show`, `Leave`, or a
stutter, one lemma per kind of step, and a call that was orphaned no longer
counts as on its way.

Two more theorems of the tab need invariants of their own. `AccountFlagsHold`
(`[]AccountFlagsMatchCalls`): the property is inductive together with the types
once it is read as `Spinning` (each spinner has a call of the page behind it) and
`Owning` (the form's disabled button is the one call marked as its own). Its proof
failed at first, and rightly: in the model a late answer to a submission of an
earlier visit to the page took the mark from the submission of the form that was
open by then, which TLC reaches only after six acts, beyond the bound of the
run. In the code the state of a page that is gone is another one, so only a call
of this visit (`mine`) clears the mark; `Saved` was corrected.
`SettledListIsCurrent` (`[]SettledListCurrent`): `Renewing` says that while the
page is `steady` either it shows the table, or something on its way will make it
ask for the list after the last change.

**`FilesPageProofs`** proves for any folders, files, calls and acts, from the
assumptions of `FilesPage`:

| Theorem | Statement |
|---|---|
| `FilesTypeCorrect` | `Spec => []TypeOK` |
| `FlagsStandForCalls` | `Spec => []FlagsMatchCalls` |
| `TicksAreOnTheScreen` | `Spec => []TickedAreShown` |
| `OrderlyViewIsExact` | `Spec => []OrderlyViewExact` |

The first three share `PageInv`: the types, that no answer reaches a page
that is gone (`GoneIsSilent`), that a rename under way has a new name
(`RenamesNamed`), the flags, that nothing is ticked while a listing loads
(`LoadingUnticked`), and that a `lone` page has one listing out at most
(`LoneList`). For the last one, `OrderInv` adds what an orderly page has ahead
of it: the calls that were executed come before the others in the order they
were sent and none failed (`InTurn`); the edits of an earlier visit come before
a listing of this one; and the base (the newest listing under way, or the files
on the screen), followed by the page's own edits that were executed after it,
leads to what the drive answers now (`Follows`, by way of `LeadsTo`, which says
that there is a history of file lists from the one to the other, each obtained by
the local edit of one answer). An execution on the drive appends to that history,
an answer takes its first step off, and with no calls left the two ends meet.

**`ApiKeysPageProofs`** proves `KeysTypeCorrect`, `OneKeyAtATimeHolds`
(`[]OneKeyAtATime`) and `KeyStaysUntilClosedHolds` (the action property), from
the inductive `KeysInv`: types, `OneKeyAtATime`, that a page that is gone has no
dialog, no submission and no key (`GoneMakesNone`), and `KeptAlone`: whenever a
key is kept, no creation is out. The last is what keeps a late answer from
replacing the key, and it needs the first, since the button is all that prevents
a second creation.

**`TaskWatcherProofs`** proves `WatcherTypeCorrect` and `OnePollingLoopHolds`
(`[]OnePollingLoop`) for any numbers of tasks, checks and acts; the two together
are inductive: a check belongs to the loop exactly while its effect stands, and
only such a check sets the timer. It also proves `OverviewTypeCorrect`
(`OverviewSpec => []OverviewTypeOK`), and for the composition
`PollersKeepTheirPromises`: `PollersSpec`, which the run `polling` checks, implies the
specifications of both parts, and so that `OnePollingLoop` and both type
invariants always hold.

**`WebPagesProofs`** proves for any fields, users, names, calls and acts, from
the assumptions of the tabs:

| Theorem | Statement |
|---|---|
| `PolicyTypeCorrect` | `PolicySpec => []PolicyTypeOK` |
| `UneditedFieldsAreInForce` | `PolicySpec => []UneditedFieldsInForce` |
| `UsersTypeCorrect` | `UsersSpec => []UsersTypeOK` |
| `OwnRowIsKept` | `UsersSpec => []OwnRowKept` |
| `SessionTypeCorrect` | `SessionSpec => []SessionTypeOK` |
| `SettledUserIsTheCookies` | `SessionSpec => []SettledUserIsCookies` |
| `SubmissionsAreReported` | `SessionSpec => []SubmissionsReported` |
| `PagesImplementTheirParts` | `PagesSpec` implies the specification of each part |
| `PagesTypeCorrect` | `PagesSpec => []PagesTypeOK` |
| `PagesKeepTheirPromises` | `PagesSpec` implies every safety property of the run `browser` |

Each of the three invariants says, of a call that is out, what the server and
the page hold meanwhile. Policy (`PolicyInv`): while `calm` there is one load or
save at most, it did not fail, a load that was executed carries what is in force,
and outside a load the fields nobody edited are in force or on their way
(`FormInForce`). Users (`UsersInv`): the own row is told by a name that three
places hold, the table, the page and the rows; while `prompt` they agree, except
between the execution of a save of the profile and its answer, when no list is
out. Session (`SessionInv`): behind the loading screen there is the one `getMe`,
only a login or a logout that was answered and not yet handled lets the cookie
and the page differ, and a save of the profile is out for the very user that
both hold. `SubmissionsReported` is then
inductive by itself: a step moves one success from those that wait to those
counted. The last three theorems are about the composition: a step of
`WebPages` is a step of the part that is open and leaves the others alone, so
`PagesSpec` implies the specification of each part, and what the parts promise
follows, the theorems of `AccountsPageProofs` and `ApiKeysPageProofs` included.

Only model-checked: all liveness properties (`SubmissionReturns`,
`ExhaustedAccountRecovers`, `ExpiredTaskCleaned`, `CallReturns`, `BusyEnds`,
`EndNoticed`, `UndisturbedEndNoticed`, `OverviewCatchesUp`), which need `ENABLED` and
fairness. Every invariant and every action property that a passing run checks is
proved. `OverviewTypeOK` and `WatcherTypeOK` are in no configuration: they are proved
instead.

## 5. Not modelled

- Streaming, dashboard, audit log and encryption are I/O, read-only, append-only
  or cryptography: nothing in them interleaves with state they keep. The same
  goes for the video player and the audit page of the front end. `TasksPage`,
  `DashboardPage` and `Sidebar` are imported by nothing, and the proxy window of
  the account tab is never opened.
- `GetOrCreateUserFolder` only chooses a task's parent folder, and the scheduler
  goes on without one. `ClassifyError` is string inspection; the scheduler is
  modelled over its eight classes.
- The copy in memory that the server keeps of the settings, and the rows of the
  file cache, are not followed one by one. A copy filled from a read that an update overtakes
  stays stale; the code does nothing against it.
- Several administrators at work on the user table at once, the contents and
  lifetime of session tokens, and the look-up of an API key by a request are left
  out, as are HTTP parsing, permissions and response texts.
- The choice of the secret key at boot and the migrations are one decision each,
  before anything runs concurrently; a change of the secret is modelled where it
  matters, in `PikPakClient`.
- Liveness, `ENABLED` and statements by induction over data are beyond the proof
  system and stay with TLC.
