----------------------------- MODULE Scheduler -----------------------------
(***************************************************************************)
(* AccountScheduler.SubmitOfflineTask with the account service beneath it: *)
(* concurrent submissions fail over across the accounts, while the daily   *)
(* reset ticker, the operator's account API and process restarts run       *)
(* beside them.                                                            *)
(*                                                                         *)
(* A submission goes round the loop                                        *)
(*   begin -> reset -> list -> lock -> client -> call -> answered -> write *)
(* where each arrow is a point at which another goroutine may run.  "Today"*)
(* is read in Go before the SQL statement that uses it is executed, hence  *)
(* the separate steps that capture a day and that write it.                *)
(***************************************************************************)
EXTENDS AccountPool

CONSTANTS
    Submission,       \* calls of SubmitOfflineTask
    Nobody,           \* owner of a free account lock
    Need,             \* Need[s] is requiredBytes of s, 0 when not given
    Answers,          \* what PikPak may answer to a task creation
    InitialRows,      \* the account tables a process may start with
    CursorMod,        \* bound: cursors are kept modulo this
    Attempts,         \* calls of the retry loop on one account (3 in the code)
    MaxEvents         \* bound: operator actions, other traffic, restarts

ASSUME SchedulerAssumption ==
    /\ Nobody \notin Submission
    /\ Need \in [Submission -> Nat]
    /\ Answers \subseteq {"ok", "quota", "rate", "proxy", "auth", "network", "other"}
    /\ InitialRows \subseteq [Account -> Row]
    /\ CursorMod \in Nat \ {0}
    /\ Attempts \in Nat \ {0}
    /\ MaxEvents \in Nat

\* cursors turn modulo the size of the rotation, so keeping them modulo a
\* common multiple of all the sizes loses nothing (short of 2^64 turns).
ASSUME CursorAssumption ==
    \A k \in 1 .. Cardinality(Account) : CursorMod % k = 0

VARIABLES
    row,        \* pikpak_accounts
    today,      \* the UTC date
    balancing,  \* StorageBalancingEnabled
    cursor,     \* AccountScheduler.cursors, by priority
    lock,       \* AccountScheduler.accountLocks
    client,     \* account.Service.clients: the newest client of each account
    cooling,    \* client objects inside a 429 cooldown
    deleting,   \* accounts between the two halves of DeleteAccount
    ticker,     \* day captured by the reset ticker, NoDate when it sleeps
    sub,        \* the local variables of every submission
    steady,     \* history: accounts serviceable ever since the submission began
    events      \* history: bounded events so far

vars == <<row, today, balancing, cursor, lock, client, cooling, deleting,
          ticker, sub, steady, events>>

table  == <<row, steady>>
memory == <<cursor, lock, client, cooling>>
world  == <<today, balancing, deleting, ticker, events>>

Answer == {"none", "noClient", "cooling",
           "ok", "quota", "rate", "proxy", "auth", "network", "other"}

PC == {"idle", "begin", "reset", "list", "lock", "client", "call",
       "answered", "write", "done"}

Result == {"none", "ok", "noAccounts", "insufficient", "allExhausted",
           "failed", "lost"}

\* The states of a submission that owns an account lock.
Holding == {"client", "call"}

NoAccount == -1

SubState ==
    [pc     : PC,
     acc    : Account \cup {NoAccount},
     gen    : Nat,                    \* the client object in use
     day    : Date,                   \* the captured date; once done, the day
                                      \* under which the task was counted
     tried  : SUBSET Account,         \* attemptedAccounts
     n      : 0 .. Attempts - 1,      \* calls made by the retry loop so far
     answer : [Account -> Answer],    \* last error, or success, by account
     result : Result]

NewSub == [pc |-> "idle", acc |-> NoAccount, gen |-> 0, day |-> NoDate,
           tried |-> {}, n |-> 0,
           answer |-> [a \in Account |-> "none"], result |-> "none"]

Init ==
    /\ row \in InitialRows
    /\ today = 0
    /\ balancing \in BOOLEAN
    /\ cursor = [p \in Prio |-> 0]
    /\ lock = [a \in Account |-> Nobody]
    /\ client = [a \in Account |-> [gen |-> 0, cached |-> FALSE]]
    /\ cooling = {}
    /\ deleting = {}
    /\ ticker = NoDate
    /\ sub = [s \in Submission |-> NewSub]
    /\ steady = [s \in Submission |-> {}]
    /\ events = 0

\* Every statement that changes the table narrows the history of who has
\* been serviceable throughout.
WriteTable(new) ==
    /\ row' = new
    /\ steady' = [s \in Submission |->
                    steady[s] \cap ServiceableAccounts(new, Need[s])]

WriteRow(a, r) == WriteTable([row EXCEPT ![a] = r])

Move(s, pc) == sub' = [sub EXCEPT ![s] = [@ EXCEPT !.pc = pc]]

\* Back to the top of the loop, with the account's local variables gone.
Continue(s) ==
    sub' = [sub EXCEPT ![s] = [@ EXCEPT !.pc = "begin", !.gen = 0, !.day = NoDate]]

Return(s, result) ==
    sub' = [sub EXCEPT ![s] = [@ EXCEPT !.pc = "done", !.gen = 0, !.result = result]]

(***************************************************************************)
(* A submission                                                            *)
(***************************************************************************)
Submit(s) ==
    /\ sub[s].pc = "idle"
    /\ Move(s, "begin")
    /\ steady' = [steady EXCEPT ![s] = ServiceableAccounts(row, Need[s])]
    /\ UNCHANGED <<row, memory, world>>

\* AutoResetDailyQuotas, up to the statement.
CaptureDay(s) ==
    /\ sub[s].pc = "begin"
    /\ sub' = [sub EXCEPT ![s] = [@ EXCEPT !.pc = "reset", !.day = today]]
    /\ UNCHANGED <<table, memory, world>>

ResetRows(d) == [a \in Account |-> AutoReset(row[a], d)]

ResetQuotas(s) ==
    /\ sub[s].pc = "reset"
    /\ WriteTable(ResetRows(sub[s].day))
    /\ sub' = [sub EXCEPT ![s] = [@ EXCEPT !.pc = "list", !.day = NoDate]]
    /\ UNCHANGED <<memory, world>>

\* SelectAccount found nobody.
GiveUpWith(s) ==
    IF sub[s].tried # {} THEN "allExhausted"
    ELSE IF Need[s] > 0 THEN "insufficient" ELSE "noAccounts"

GiveUp(s) ==
    /\ sub[s].pc = "list"
    /\ Candidates(row, sub[s].tried, Need[s]) = {}
    /\ Return(s, GiveUpWith(s))
    /\ UNCHANGED <<table, memory, world>>

\* A lone account of largest free space is taken without turning the cursor.
Turns(G) == ~ (balancing /\ Cardinality(G) = 1)

\* Mutant: the cursor is read and never advanced.
NotTurned(p) == cursor

Turned(p) == [cursor EXCEPT ![p] = (@ + 1) % CursorMod]

Select(s, a) ==
    LET C == Candidates(row, sub[s].tried, Need[s])
        G == Rotation(row, C, Need[s], balancing)
        p == row[a].prio
    IN  /\ sub[s].pc = "list"
        /\ a \in G
        /\ IF Turns(G)
           THEN /\ Index(row, balancing, G, a) = ((cursor[p] + 1) % CursorMod) % Cardinality(G)
                /\ cursor' = Turned(p)
           ELSE cursor' = cursor
        /\ sub' = [sub EXCEPT ![s] =
                     [@ EXCEPT !.pc = "lock", !.acc = a, !.tried = sub[s].tried \cup {a}]]
        /\ UNCHANGED <<table, lock, client, cooling, world>>

\* Mutant: the account lock is taken without waiting for its owner.
LockAccountAnyway(s) ==
    LET a == sub[s].acc
    IN  /\ sub[s].pc = "lock"
        /\ lock' = [lock EXCEPT ![a] = s]
        /\ Move(s, "client")
        /\ UNCHANGED <<table, cursor, client, cooling, world>>

LockAccount(s) ==
    LET a == sub[s].acc
    IN  /\ sub[s].pc = "lock"
        /\ lock[a] = Nobody
        /\ lock' = [lock EXCEPT ![a] = s]
        /\ Move(s, "client")
        /\ UNCHANGED <<table, cursor, client, cooling, world>>

\* GetClient: the cached client, or a new one built from the row.
Built(a) ==
    IF client[a].cached THEN client[a]
    ELSE [gen |-> client[a].gen + 1, cached |-> TRUE]

\* The row must be there, and NewClient must take its proxy_url.
CanGetClient(a) == client[a].cached \/ (Live(row[a]) /\ row[a].buildable)

GetClient(s) ==
    LET a == sub[s].acc
    IN  /\ sub[s].pc = "client"
        /\ CanGetClient(a)
        /\ client' = [client EXCEPT ![a] = Built(a)]
        /\ sub' = [sub EXCEPT ![s] = [@ EXCEPT !.pc = "call", !.gen = Built(a).gen]]
        /\ UNCHANGED <<table, cursor, lock, cooling, world>>

NoClient(s) ==
    LET a == sub[s].acc
    IN  /\ sub[s].pc = "client"
        /\ ~ CanGetClient(a)
        /\ lock' = [lock EXCEPT ![a] = Nobody]
        /\ sub' = [sub EXCEPT ![s] =
                     [@ EXCEPT !.pc = "begin", !.answer[a] = "noClient"]]
        /\ UNCHANGED <<table, cursor, client, cooling, world>>

Cooling(s) == <<sub[s].acc, sub[s].gen>> \in cooling

\* Mutant: one more retry than the loop allows.
OneMoreRetry == Attempts + 1

Retries == Attempts

\* Only a network error is retried, with the account lock held throughout.
RetryAfter(s, o) == o = "network" /\ sub[s].n + 1 < Retries

Heard(s, o) ==
    [sub[s] EXCEPT !.pc = IF RetryAfter(s, o) THEN "call" ELSE "answered",
                   !.n = IF RetryAfter(s, o) THEN sub[s].n + 1 ELSE 0,
                   !.answer[sub[s].acc] = o]

\* Mutant: the account lock is kept when the task was not created.
AnsweredKeepsLock(s, o) ==
    LET a == sub[s].acc
    IN  /\ sub[s].pc = "call"
        /\ sub' = [sub EXCEPT ![s] = Heard(s, o)]
        /\ lock' = IF o = "ok" THEN [lock EXCEPT ![a] = Nobody] ELSE lock

\* CreateOfflineTask came back with o; after the last attempt the account
\* lock is released before the outcome is looked at.
Answered(s, o) ==
    LET a == sub[s].acc
    IN  /\ sub[s].pc = "call"
        /\ sub' = [sub EXCEPT ![s] = Heard(s, o)]
        /\ lock' = IF RetryAfter(s, o) THEN lock ELSE [lock EXCEPT ![a] = Nobody]

\* doRequest refuses to call PikPak while the client is cooling down, and
\* starts a cooldown when PikPak answers 429.
RefuseLocally(s) ==
    /\ Cooling(s)
    /\ Answered(s, "cooling")
    /\ UNCHANGED <<table, cursor, client, cooling, world>>

Reply(s, o) ==
    /\ ~ Cooling(s)
    /\ Answered(s, o)
    /\ cooling' = IF o = "rate" THEN cooling \cup {<<sub[s].acc, sub[s].gen>>}
                                ELSE cooling
    /\ UNCHANGED <<table, cursor, client, world>>

LastAnswer(s) == sub[s].answer[sub[s].acc]

\* IncrementDailyTaskCount and UpdateStatus("QUOTA_EXHAUSTED") read the date
\* before they write the row.
CaptureWriteDay(s) ==
    /\ sub[s].pc = "answered"
    /\ LastAnswer(s) \in {"ok", "quota"}
    /\ sub' = [sub EXCEPT ![s] = [@ EXCEPT !.pc = "write", !.day = today]]
    /\ UNCHANGED <<table, memory, world>>

\* Mutant: a task that was created is failed over like one that was not.
CountTaskAndContinue(s) ==
    /\ sub[s].pc = "write"
    /\ LastAnswer(s) = "ok"
    /\ WriteRow(sub[s].acc, TaskCounted(row[sub[s].acc], sub[s].day))
    /\ Continue(s)
    /\ UNCHANGED <<memory, world>>

CountTask(s) ==
    /\ sub[s].pc = "write"
    /\ LastAnswer(s) = "ok"
    /\ WriteRow(sub[s].acc, TaskCounted(row[sub[s].acc], sub[s].day))
    /\ sub' = [sub EXCEPT ![s] =
                 [@ EXCEPT !.pc = "done", !.gen = 0, !.result = "ok"]]
    /\ UNCHANGED <<memory, world>>

MarkExhausted(s) ==
    /\ sub[s].pc = "write"
    /\ LastAnswer(s) = "quota"
    /\ WriteRow(sub[s].acc, Exhausted(row[sub[s].acc], sub[s].day))
    /\ Continue(s)
    /\ UNCHANGED <<memory, world>>

CoolDown(s) ==
    /\ sub[s].pc = "answered"
    /\ LastAnswer(s) \in {"rate", "cooling"}
    /\ cooling' = cooling \cup {<<sub[s].acc, sub[s].gen>>}
    /\ Continue(s)
    /\ UNCHANGED <<table, cursor, lock, client, world>>

\* Mutant: a dead proxy is taken for an exhausted quota.
FailedStatusAsQuota(s) ==
    IF LastAnswer(s) = "proxy" THEN "QUOTA_EXHAUSTED" ELSE "AUTH_FAILED"

FailedStatus(s) == IF LastAnswer(s) = "proxy" THEN "PROXY_FAILED" ELSE "AUTH_FAILED"

MarkFailed(s) ==
    /\ sub[s].pc = "answered"
    /\ LastAnswer(s) \in {"proxy", "auth"}
    /\ WriteRow(sub[s].acc, Failed(row[sub[s].acc], FailedStatus(s)))
    /\ Continue(s)
    /\ UNCHANGED <<memory, world>>

\* Any other error ends the submission, except that a network error is
\* failed over.
FailOver(s) ==
    /\ sub[s].pc = "answered"
    /\ LastAnswer(s) = "network"
    /\ Continue(s)
    /\ UNCHANGED <<table, memory, world>>

Fail(s) ==
    /\ sub[s].pc = "answered"
    /\ LastAnswer(s) = "other"
    /\ Return(s, "failed")
    /\ UNCHANGED <<table, memory, world>>

(***************************************************************************)
(* The reset ticker of main, midnight, and the end of a cooldown           *)
(***************************************************************************)
Tick ==
    /\ ticker = NoDate
    /\ ticker' = today
    /\ UNCHANGED <<table, memory, today, balancing, deleting, sub, events>>

TickReset ==
    /\ ticker # NoDate
    /\ WriteTable(ResetRows(ticker))
    /\ ticker' = NoDate
    /\ UNCHANGED <<memory, today, balancing, deleting, sub, events>>

Midnight ==
    /\ today < MaxDay
    /\ today' = today + 1
    /\ UNCHANGED <<table, memory, balancing, deleting, ticker, sub, events>>

CooldownEnds(c) ==
    /\ c \in cooling
    /\ cooling' = cooling \ {c}
    /\ UNCHANGED <<table, cursor, lock, client, world, sub>>

(***************************************************************************)
(* The operator's API, other traffic and restarts                          *)
(***************************************************************************)
Event == events < MaxEvents /\ events' = events + 1

CreateAccount(a) ==
    /\ Event
    /\ row[a].stored = "unborn"
    /\ \E p \in Prio, e, b \in BOOLEAN :
         WriteRow(a, [stored |-> "live", enabled |-> e, status |-> "HEALTHY",
                      lastDay |-> NoDate, exhaustedOn |-> NoDate,
                      count |-> 0, prio |-> p, free |-> 0, buildable |-> b])
    /\ UNCHANGED <<memory, today, balancing, deleting, ticker, sub>>

\* UpdateAccount writes the row and drops the cached client.
UpdateAccount(a) ==
    /\ Event
    /\ Live(row[a])
    /\ \E p \in Prio, e, b \in BOOLEAN :
         WriteRow(a, [row[a] EXCEPT !.prio = p, !.enabled = e, !.buildable = b])
    /\ client' = [client EXCEPT ![a].cached = FALSE]
    /\ UNCHANGED <<cursor, lock, cooling, today, balancing, deleting, ticker, sub>>

\* DeleteAccount drops the cached client before it deletes the row.
DeleteAccount(a) ==
    /\ Event
    /\ a \notin deleting
    /\ client' = [client EXCEPT ![a].cached = FALSE]
    /\ deleting' = deleting \cup {a}
    /\ UNCHANGED <<table, cursor, lock, cooling, today, balancing, ticker, sub>>

DeleteRow(a) ==
    /\ a \in deleting
    /\ deleting' = deleting \ {a}
    /\ WriteRow(a, WhereLive(row[a], [row[a] EXCEPT !.stored = "deleted"]))
    /\ UNCHANGED <<memory, today, balancing, ticker, sub, events>>

ResetQuota(a) ==
    /\ Event
    /\ WriteRow(a, QuotaReset(row[a]))
    /\ UNCHANGED <<memory, today, balancing, deleting, ticker, sub>>

\* TestAccount logs in and overwrites the status with what it saw; with the
\* storage it read, or without when that request failed.
TestAccount(a) ==
    /\ Event
    /\ CanGetClient(a)
    /\ client' = [client EXCEPT ![a] = Built(a)]
    /\ \/ WriteRow(a, Failed(row[a], "AUTH_FAILED"))
       \/ \E f \in Space \cup {row[a].free} :
            WriteRow(a, WhereLive(row[a], [row[a] EXCEPT !.status = "HEALTHY", !.free = f]))
    /\ UNCHANGED <<cursor, lock, cooling, today, balancing, deleting, ticker, sub>>

SyncAccountStorage(a) ==
    /\ Event
    /\ CanGetClient(a)
    /\ client' = [client EXCEPT ![a] = Built(a)]
    /\ \E f \in Space : WriteRow(a, WhereLive(row[a], [row[a] EXCEPT !.free = f]))
    /\ UNCHANGED <<cursor, lock, cooling, today, balancing, deleting, ticker, sub>>

\* InitializeAccount, as far as the account table is concerned: the quota
\* statement, then the storage synchronisation, which may fail.
InitializeAccount(a) ==
    /\ Event
    /\ CanGetClient(a)
    /\ client' = [client EXCEPT ![a] = Built(a)]
    /\ \E f \in Space \cup {row[a].free} :
         WriteRow(a, WhereLive(row[a], [QuotaReset(row[a]) EXCEPT !.free = f]))
    /\ UNCHANGED <<cursor, lock, cooling, today, balancing, deleting, ticker, sub>>

UpdateSettings ==
    /\ Event
    /\ balancing' = ~ balancing
    /\ UNCHANGED <<table, memory, today, deleting, ticker, sub>>

\* The poller, the file views or the cleaner are answered 429.
OtherTraffic429(a) ==
    /\ Event
    /\ client[a].cached
    /\ cooling' = cooling \cup {<<a, client[a].gen>>}
    /\ UNCHANGED <<table, cursor, lock, client, today, balancing, deleting, ticker, sub>>

\* The process stops and starts: the table survives, nothing else does.
Restart ==
    /\ Event
    /\ lock' = [a \in Account |-> Nobody]
    /\ cursor' = [p \in Prio |-> 0]
    /\ client' = [a \in Account |-> [client[a] EXCEPT !.cached = FALSE]]
    /\ cooling' = {}
    /\ deleting' = {}
    /\ ticker' = NoDate
    /\ sub' = [s \in Submission |->
                 IF sub[s].pc \in {"idle", "done"} THEN sub[s]
                 ELSE [sub[s] EXCEPT !.pc = "done", !.gen = 0, !.n = 0, !.day = NoDate,
                                     !.result = "lost"]]
    /\ UNCHANGED <<table, today, balancing>>

(***************************************************************************)
(* The specification                                                       *)
(***************************************************************************)
Work(s) ==
    \/ CaptureDay(s) \/ ResetQuotas(s)
    \/ GiveUp(s) \/ (\E a \in Account : Select(s, a))
    \/ LockAccount(s)
    \/ GetClient(s) \/ NoClient(s)
    \/ RefuseLocally(s) \/ (\E o \in Answers : Reply(s, o))
    \/ CaptureWriteDay(s) \/ CountTask(s) \/ MarkExhausted(s)
    \/ CoolDown(s) \/ MarkFailed(s) \/ FailOver(s) \/ Fail(s)

Operate(a) ==
    \/ CreateAccount(a) \/ UpdateAccount(a)
    \/ DeleteAccount(a) \/ DeleteRow(a)
    \/ ResetQuota(a) \/ TestAccount(a) \/ SyncAccountStorage(a)
    \/ InitializeAccount(a) \/ OtherTraffic429(a)

Next ==
    \/ \E s \in Submission : Submit(s) \/ Work(s)
    \/ Tick \/ TickReset \/ Midnight
    \/ \E c \in cooling : CooldownEnds(c)
    \/ \E a \in Account : Operate(a)
    \/ UpdateSettings
    \/ Restart

Spec == Init /\ [][Next]_vars

\* HTTP requests time out and goroutines are scheduled, so a submission that
\* can take a step takes one; the ticker fires; midnight comes.  Nothing makes
\* a user submit, an operator act, or a cooldown end while it is renewed.
FairSpec ==
    /\ Spec
    /\ \A s \in Submission : WF_vars(Work(s))
    /\ WF_vars(Tick) /\ WF_vars(TickReset)
    /\ WF_vars(Midnight)

(***************************************************************************)
(* Properties                                                              *)
(***************************************************************************)

\* Every variable stays in its domain; the lock table, the captured dates and
\* the result of a submission keep the shape the code gives them.
TypeOK ==
    /\ row \in [Account -> Row]
    /\ today \in Day
    /\ balancing \in BOOLEAN
    /\ cursor \in [Prio -> Nat]
    /\ lock \in [Account -> Submission \cup {Nobody}]
    /\ client \in [Account -> [gen : Nat, cached : BOOLEAN]]
    /\ cooling \subseteq Account \X Nat
    /\ deleting \subseteq Account
    /\ ticker \in Date
    /\ sub \in [Submission -> SubState]
    /\ steady \in [Submission -> SUBSET Account]
    /\ events \in Nat

\* The account lock is held exactly by the submission between Lock and Unlock:
\* every way out of an attempt, restarts included, gives it back, and nobody
\* enters an attempt without it (scheduler.go:324-387).
LockGuardsAccount ==
    \A s \in Submission, a \in Account :
        lock[a] = s <=> sub[s].pc \in Holding /\ sub[s].acc = a

\* Two submissions never build a client for, or create a task on, the same
\* account at once: what the lock is for (scheduler.go:324).
OneCallPerAccount ==
    \A s, t \in Submission :
        /\ sub[s].pc \in Holding
        /\ sub[t].pc \in Holding
        /\ sub[s].acc = sub[t].acc
        => s = t

Visit(s) == sub[s].pc = "list" /\ sub'[s].pc = "lock"

\* However the pool changes or answers meanwhile, a submission never goes back
\* to an account that has already answered it: failing over is finite (with
\* the at most Attempts calls of a visit, which TypeOK bounds).
OneVisitPerAccount ==
    [][\A s \in Submission : Visit(s) => sub[s].answer[sub'[s].acc] = "none"]_vars

\* A submission that gives up has really called every account that was
\* serviceable from its beginning to its end: usable, and with a proxy_url that
\* NewClient accepts.  An account whose client cannot be built is left for the
\* next one, however healthy it is (scheduler.go:328).
SteadyAccountsCalled ==
    \A s \in Submission :
        sub[s].result \in {"noAccounts", "insufficient", "allExhausted"}
        => \A a \in steady[s] : sub[s].answer[a] \notin {"none", "noClient"}

\* A task PikPak acknowledged is reported to the caller with its account, and
\* no other account is asked afterwards; nothing else is reported as success.
AcknowledgedTaskReturned ==
    \A s \in Submission : sub[s].pc = "done" /\ sub[s].result # "lost" =>
        {a \in Account : sub[s].answer[a] = "ok"}
            = IF sub[s].result = "ok" THEN {sub[s].acc} ELSE {}

\* A row says QUOTA_EXHAUSTED only if PikPak refused a task on that account
\* for its quota, and PROXY_FAILED only if its proxy failed: no failure is
\* booked as another one.
StatusHasCause ==
    \A a \in Account :
        /\ row[a].status = "QUOTA_EXHAUSTED"
           => \E s \in Submission : sub[s].answer[a] = "quota"
        /\ row[a].status = "PROXY_FAILED"
           => \E s \in Submission : sub[s].answer[a] = "proxy"

Created(a) == {s \in Submission : sub[s].answer[a] = "ok"}

CountedOn(a, d) == {s \in Created(a) : sub[s].pc = "done" /\ sub[s].day = d}

QuotaRefused(a) == \E s \in Submission : sub[s].answer[a] = "quota"

\* The daily count of an account is about the day its row is dated with: it
\* never exceeds the tasks counted there under that day, though midnight passes
\* between the capture of a date and its use, of resets and of other
\* submissions (account/service.go:377, 385).  An account that refused for its
\* quota may keep the count of an earlier day (see CountRestartsDaily), but
\* never counts more than the tasks created on it.
CountOfTheDay ==
    \A a \in Account :
        row[a].count <= Cardinality(IF QuotaRefused(a) THEN Created(a)
                                    ELSE CountedOn(a, row[a].lastDay))

\* The same for every account: "resets quota exhausted state and daily task
\* counts if a new day has arrived" (account/service.go:384).  Marking an
\* account exhausted dates its row and leaves the count (account/service.go:353),
\* so the reset of that day passes over it: this does not hold.
CountRestartsDaily ==
    \A a \in Account : row[a].count <= Cardinality(CountedOn(a, row[a].lastDay))

\* "All accounts have exhausted their daily quota" is only reported when each
\* account that was tried had refused the task for its quota.  The code reports
\* it after any failures (scheduler.go:315): this does not hold.
ExhaustedMeansQuota ==
    \A s \in Submission : sub[s].result = "allExhausted" =>
        \A a \in sub[s].tried : sub[s].answer[a] = "quota"

Share(a) == Cardinality({s \in Submission : sub[s].acc = a})

\* While nothing but successful submissions happens, the accounts of one
\* rotation receive tasks in turn: their shares differ by at most one
\* (scheduler.go:223).
EvenRotation ==
    \A a, b \in Account : Share(a) <= Share(b) + 1

\* Every submission returns to its caller.
SubmissionReturns ==
    \A s \in Submission : sub[s].pc = "begin" ~> sub[s].pc = "done"

Overdue(a) ==
    Live(row[a]) /\ row[a].status = "QUOTA_EXHAUSTED" /\ row[a].lastDay # today

\* An account marked exhausted on an earlier day does not stay so: the ticker
\* or a submission puts it back into the rotation (account/service.go:385).
ExhaustedAccountRecovers == \A a \in Account : Overdue(a) ~> ~ Overdue(a)

\* An account inside its 429 cooldown is not selected.  Nothing writes the
\* column that the selection looks at (scheduler.go:105): this does not hold.
CoolingAccountSkipped ==
    [][\A s \in Submission :
         Visit(s) => LET a == sub'[s].acc IN <<a, client[a].gen>> \notin cooling]_vars

=============================================================================
