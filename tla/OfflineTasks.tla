---------------------------- MODULE OfflineTasks ----------------------------
(***************************************************************************)
(* The offline_tasks and idempotency_keys tables, the requests that fill   *)
(* them, the poller that follows PikPak's own task list, the cleaner, and  *)
(* the cancel, delete, retry and initialise operations.                    *)
(*                                                                         *)
(* A request is one call of SubmitSingleLink; the task it creates bears    *)
(* its name.  AccountScheduler.SubmitOfflineTask is taken by what module   *)
(* Scheduler shows of it: a success is one acknowledged PikPak task, a     *)
(* failure is none.                                                        *)
(***************************************************************************)
EXTENDS Naturals, FiniteSets

CONSTANTS
    Request,      \* calls of SubmitSingleLink
    Key, NoKey,   \* values of the Idempotency-Key header, and its absence
    Account,      \* accounts a task may live on
    Cleaner,      \* the cleanup ticker and administrators' cleanup requests
    Nothing,      \* no task, no account
    MaxEvents     \* bound: operator actions, disconnections, restarts

ASSUME TasksAssumption ==
    /\ NoKey \notin Key
    /\ Nothing \notin Request \cup Account
    /\ MaxEvents \in Nat

VARIABLES
    row,     \* offline_tasks
    key,     \* idempotency_keys: the task named by the stored response
    req,     \* the local variables of every request
    home,    \* the account that took the task of a request
    remote,  \* PikPak's view of the task: its phase, list entry and file
    wake,    \* wakeChan, a channel of capacity one
    poll,    \* the local variables of pollActiveTasks
    clean,   \* the local variables of every CleanExpiredTasks
    calls,   \* CancelTask and DeleteTask under way
    wiping,  \* accounts between the two halves of InitializeAccount
    owed,    \* history: running tasks inserted since the last poll began
    events   \* history: bounded events so far

vars == <<row, key, req, home, remote, wake, poll, clean, calls, wiping,
          owed, events>>

Stored  == {"RUNNING", "COMPLETE", "ERROR", "CANCELLED", "CLEANED"}
Status  == Stored \cup {"none", "deleted"}
Phase   == {"pending", "running", "complete", "error"}

\* completed_at is NULL, recent, or past the retention period.
Row == [status : Status, doneAt : {"null", "recent", "old"}]

RemoteTask == [phase : Phase \cup {"none"}, listed : BOOLEAN, file : BOOLEAN]

InFlight == {"create", "insert", "wake", "save"}

\* left: the client has disconnected, so the context of the request is done.
\* instant: PikPak's answer to the creation was taken for an instant match.
Req == [pc : InFlight \cup {"idle", "answered", "failed", "lost"},
        key : Key \cup {NoKey}, instant : BOOLEAN, left : BOOLEAN,
        result : Request \cup {Nothing}]

Poll == [pc : {"sleep", "query", "list"}, todo : SUBSET Request,
         seen : [Request -> Phase \cup {"unseen"}]]

Asleep == [pc |-> "sleep", todo |-> {}, seen |-> [r \in Request |-> "unseen"]]

Idle == [todo |-> {}, current |-> Nothing]

Call == [kind : {"cancel", "delete"}, task : Request, stage : {"remote", "write"}]

Init ==
    /\ row = [r \in Request |-> [status |-> "none", doneAt |-> "null"]]
    /\ key = [k \in Key |-> Nothing]
    /\ req = [r \in Request |-> [pc |-> "idle", key |-> NoKey, instant |-> FALSE,
                                 left |-> FALSE, result |-> Nothing]]
    /\ home = [r \in Request |-> Nothing]
    /\ remote = [r \in Request |-> [phase |-> "none", listed |-> FALSE, file |-> FALSE]]
    /\ wake = FALSE
    /\ poll = Asleep
    /\ clean = [c \in Cleaner |-> Idle]
    /\ calls = {}
    /\ wiping = {}
    /\ owed = {}
    /\ events = 0

Event == events < MaxEvents /\ events' = events + 1

\* UPDATE ... WHERE id = ? changes nothing when the row is gone.
Present(r) == row[r].status \in Stored

SetStatus(r, status) ==
    row' = IF Present(r) THEN [row EXCEPT ![r].status = status] ELSE row

(***************************************************************************)
(* SubmitSingleLink                                                        *)
(***************************************************************************)
Step(r, pc) == req' = [req EXCEPT ![r].pc = pc]

Answer(r, task) == req' = [req EXCEPT ![r] = [@ EXCEPT !.pc = "answered", !.result = task]]

\* A stored response is returned as it is; otherwise the task is created.
CheckKey(r, k) ==
    /\ req[r].pc = "idle"
    /\ req' = [req EXCEPT ![r] =
                 IF k # NoKey /\ key[k] # Nothing
                 THEN [@ EXCEPT !.pc = "answered", !.key = k, !.result = key[k]]
                 ELSE [@ EXCEPT !.pc = "create", !.key = k]]
    /\ UNCHANGED <<row, key, home, remote, wake, poll, clean, calls, wiping, owed, events>>

\* RetryTask submits the link of any stored task again, without a key.
RetryTask(r) ==
    /\ Event
    /\ req[r].pc = "idle"
    /\ \E t \in Request : Present(t)
    /\ Step(r, "create")
    /\ UNCHANGED <<row, key, home, remote, wake, poll, clean, calls, wiping, owed>>

\* The scheduler returned a task in some phase; full says that its progress is
\* 100, which counts as complete whatever the phase.
Create(r, a, phase, full) ==
    /\ req[r].pc = "create" /\ ~ req[r].left
    /\ home' = [home EXCEPT ![r] = a]
    /\ remote' = [remote EXCEPT ![r] = [phase |-> phase, listed |-> TRUE,
                                        file |-> phase = "complete"]]
    /\ req' = [req EXCEPT ![r] = [@ EXCEPT !.pc = "insert",
                                           !.instant = (phase = "complete" \/ full)]]
    /\ UNCHANGED <<row, key, wake, poll, clean, calls, wiping, owed, events>>

CreateFails(r) ==
    /\ req[r].pc = "create"
    /\ Step(r, "failed")
    /\ UNCHANGED <<row, key, home, remote, wake, poll, clean, calls, wiping, owed, events>>

\* The row is not stored when the context is done; the request goes on.
Insert(r) ==
    /\ req[r].pc = "insert"
    /\ Step(r, "wake")
    /\ IF req[r].left THEN UNCHANGED <<row, owed>>
       ELSE IF req[r].instant
       THEN row' = [row EXCEPT ![r] = [status |-> "COMPLETE", doneAt |-> "recent"]]
            /\ owed' = owed
       ELSE row' = [row EXCEPT ![r] = [status |-> "RUNNING", doneAt |-> "null"]]
            /\ owed' = owed \cup {r}
    /\ UNCHANGED <<key, home, remote, wake, poll, clean, calls, wiping, events>>

\* Mutant: a poller that is already at work is not signalled.
WakeOnlySleeping(r) ==
    /\ req[r].pc = "wake"
    /\ Step(r, "save")
    /\ wake' = (wake \/ poll.pc = "sleep")
    /\ UNCHANGED <<row, key, home, remote, poll, clean, calls, wiping, owed, events>>

WakePoller(r) ==
    /\ req[r].pc = "wake"
    /\ Step(r, "save")
    /\ wake' = TRUE
    /\ UNCHANGED <<row, key, home, remote, poll, clean, calls, wiping, owed, events>>

\* Mutant: the response is stored although the client has left.
SavesDetached(r) == req[r].key # NoKey

\* Mutant: the response of an instant match is returned without being stored.
SavesRunning(r) == req[r].key # NoKey /\ ~ req[r].left /\ ~ req[r].instant

Saves(r) == req[r].key # NoKey /\ ~ req[r].left

\* The response is stored before it is returned; a client that has left does
\* not hear it.
SaveKey(r) ==
    /\ req[r].pc = "save"
    /\ key' = IF Saves(r) THEN [key EXCEPT ![req[r].key] = r] ELSE key
    /\ IF req[r].left THEN Step(r, "lost") ELSE Answer(r, r)
    /\ UNCHANGED <<row, home, remote, wake, poll, clean, calls, wiping, owed, events>>

Disconnect(r) ==
    /\ Event
    /\ req[r].pc \in InFlight /\ ~ req[r].left
    /\ req' = [req EXCEPT ![r].left = TRUE]
    /\ UNCHANGED <<row, key, home, remote, wake, poll, clean, calls, wiping, owed>>

(***************************************************************************)
(* PikPak                                                                  *)
(***************************************************************************)
Progress(r, phase) ==
    /\ remote[r].listed
    /\ \/ remote[r].phase = "pending" /\ phase \in {"running", "error"}
       \/ remote[r].phase = "running" /\ phase \in {"complete", "error"}
    /\ remote' = [remote EXCEPT ![r] = [@ EXCEPT !.phase = phase, !.file = (phase = "complete")]]
    /\ UNCHANGED <<row, key, req, home, wake, poll, clean, calls, wiping, owed, events>>

(***************************************************************************)
(* The poller: one goroutine, woken by a ticker or by a new task           *)
(***************************************************************************)
PollTick ==
    /\ poll.pc = "sleep"
    /\ poll' = [poll EXCEPT !.pc = "query"]
    /\ UNCHANGED <<row, key, req, home, remote, wake, clean, calls, wiping, owed, events>>

PollWake ==
    /\ poll.pc = "sleep" /\ wake
    /\ wake' = FALSE
    /\ poll' = [poll EXCEPT !.pc = "query"]
    /\ UNCHANGED <<row, key, req, home, remote, clean, calls, wiping, owed, events>>

\* pollActiveTasks returns when every task of its query has been dealt with.
GoOn(todo, seen) ==
    poll' = IF todo = {} THEN Asleep
            ELSE [pc |-> "list", todo |-> todo,
                  seen |-> [r \in Request |-> IF r \in todo THEN seen[r] ELSE "unseen"]]

\* Mutant: the query takes every row that has a PikPak task.
EveryTask == {r \in Request : Present(r)}

\* Rows without a PikPak task are left out by the query; none is here, since
\* every task that is created has an id.
Active == {r \in Request : row[r].status = "RUNNING"}

Query ==
    /\ poll.pc = "query"
    /\ GoOn(Active, poll.seen)
    /\ owed' = owed \ Active
    /\ UNCHANGED <<row, key, req, home, remote, wake, clean, calls, wiping, events>>

Unlisted(a) == {r \in poll.todo : home[r] = a /\ poll.seen[r] = "unseen"}

\* Mutant: the phase filter of the list request leaves completed tasks out.
ReportedUnfinished(r) == remote[r].listed /\ remote[r].phase \in {"running", "error"}

\* A pending task is listed and ignored; a task PikPak no longer lists is
\* left as it is.
Reported(r) == remote[r].listed /\ remote[r].phase \in {"running", "complete", "error"}

List(a) ==
    /\ Unlisted(a) # {}
    /\ GoOn({r \in poll.todo : r \in Unlisted(a) => Reported(r)},
            [r \in Request |-> IF r \in Unlisted(a) THEN remote[r].phase ELSE poll.seen[r]])
    /\ UNCHANGED <<row, key, req, home, remote, wake, clean, calls, wiping, owed, events>>

\* No client, or no answer: the account waits for the next poll.
ListFails(a) ==
    /\ Unlisted(a) # {}
    /\ GoOn(poll.todo \ Unlisted(a), poll.seen)
    /\ UNCHANGED <<row, key, req, home, remote, wake, clean, calls, wiping, owed, events>>

\* Mutant: PikPak's own phase is written.
StatusAsPhase(phase) == phase

\* Mutant: a failed download is recorded as a completed one.
StatusOfAnyEnd(phase) == IF phase = "running" THEN "RUNNING" ELSE "COMPLETE"

StatusOf(phase) ==
    CASE phase = "complete" -> "COMPLETE"
      [] phase = "error"    -> "ERROR"
      [] phase = "running"  -> "RUNNING"

Apply(r) ==
    /\ r \in poll.todo /\ poll.seen[r] # "unseen"
    /\ row' = IF ~ Present(r) THEN row
              ELSE [row EXCEPT ![r] =
                      [status |-> StatusOf(poll.seen[r]),
                       doneAt |-> IF poll.seen[r] = "complete" THEN "recent" ELSE @.doneAt]]
    /\ GoOn(poll.todo \ {r}, poll.seen)
    /\ UNCHANGED <<key, req, home, remote, wake, clean, calls, wiping, owed, events>>

(***************************************************************************)
(* The cleaner                                                             *)
(***************************************************************************)
Age(r) ==
    /\ row[r].doneAt = "recent"
    /\ row' = [row EXCEPT ![r].doneAt = "old"]
    /\ UNCHANGED <<key, req, home, remote, wake, poll, clean, calls, wiping, owed, events>>

\* Mutant: the comparison with the cutoff is the wrong way round.
ExpiredRecent == {r \in Request : row[r].status = "COMPLETE" /\ row[r].doneAt = "recent"}

Expired == {r \in Request : row[r].status = "COMPLETE" /\ row[r].doneAt = "old"}

StartCleaning(c) ==
    /\ clean[c] = Idle
    /\ Expired # {}
    /\ clean' = [clean EXCEPT ![c].todo = Expired]
    /\ UNCHANGED <<row, key, req, home, remote, wake, poll, calls, wiping, owed, events>>

\* The account has no client: the task is left for the next run.
SkipTask(c, r) ==
    /\ r \in clean[c].todo /\ clean[c].current = Nothing
    /\ clean' = [clean EXCEPT ![c].todo = @ \ {r}]
    /\ UNCHANGED <<row, key, req, home, remote, wake, poll, calls, wiping, owed, events>>

\* The answer of PikPak to the deletion is not looked at.
DeleteFile(c, r) ==
    /\ r \in clean[c].todo /\ clean[c].current = Nothing
    /\ clean' = [clean EXCEPT ![c] = [todo |-> @.todo \ {r}, current |-> r]]
    /\ \E deleted \in BOOLEAN :
         remote' = [remote EXCEPT ![r].file = @ /\ ~ deleted]
    /\ UNCHANGED <<row, key, req, home, wake, poll, calls, wiping, owed, events>>

MarkCleaned(c) ==
    /\ clean[c].current # Nothing
    /\ SetStatus(clean[c].current, "CLEANED")
    /\ clean' = [clean EXCEPT ![c].current = Nothing]
    /\ UNCHANGED <<key, req, home, remote, wake, poll, calls, wiping, owed, events>>

(***************************************************************************)
(* Operators                                                               *)
(***************************************************************************)
\* CancelTask and DeleteTask read the row, ask PikPak to drop its task, and
\* write the row whatever PikPak answered.
StartCall(kind, r) ==
    /\ Event
    /\ Present(r)
    /\ calls' = calls \cup {[kind |-> kind, task |-> r, stage |-> "remote"]}
    /\ UNCHANGED <<row, key, req, home, remote, wake, poll, clean, wiping, owed>>

DropRemote(c) ==
    /\ c \in calls /\ c.stage = "remote"
    /\ calls' = (calls \ {c}) \cup {[c EXCEPT !.stage = "write"]}
    /\ \E dropped \in BOOLEAN :
         remote' = [remote EXCEPT ![c.task].listed = @ /\ ~ dropped]
    /\ UNCHANGED <<row, key, req, home, wake, poll, clean, wiping, owed, events>>

FinishCall(c) ==
    /\ c \in calls /\ c.stage = "write"
    /\ calls' = calls \ {c}
    /\ SetStatus(c.task, IF c.kind = "cancel" THEN "CANCELLED" ELSE "deleted")
    /\ UNCHANGED <<key, req, home, remote, wake, poll, clean, wiping, owed, events>>

\* InitializeAccount wipes what PikPak lets it wipe, then the rows.
WipeRemote(a) ==
    /\ Event
    /\ a \notin wiping
    /\ wiping' = wiping \cup {a}
    /\ \E Gone \in SUBSET {r \in Request : home[r] = a} :
         remote' = [r \in Request |->
                      IF r \in Gone THEN [remote[r] EXCEPT !.listed = FALSE, !.file = FALSE]
                      ELSE remote[r]]
    /\ UNCHANGED <<row, key, req, home, wake, poll, clean, calls, owed>>

WipeRows(a) ==
    /\ a \in wiping
    /\ wiping' = wiping \ {a}
    /\ row' = [r \in Request |->
                 IF Present(r) /\ home[r] = a THEN [row[r] EXCEPT !.status = "deleted"]
                 ELSE row[r]]
    /\ UNCHANGED <<key, req, home, remote, wake, poll, clean, calls, owed, events>>

\* The process stops and starts: the tables and PikPak survive.
Restart ==
    /\ Event
    /\ req' = [r \in Request |->
                 IF req[r].pc \in InFlight THEN [req[r] EXCEPT !.pc = "lost"] ELSE req[r]]
    /\ wake' = FALSE
    /\ poll' = Asleep
    /\ clean' = [c \in Cleaner |-> Idle]
    /\ calls' = {}
    /\ wiping' = {}
    /\ owed' = {}
    /\ UNCHANGED <<row, key, home, remote>>

(***************************************************************************)
(* The specification                                                       *)
(***************************************************************************)
Submission(r) ==
    \/ (\E k \in Key \cup {NoKey} : CheckKey(r, k)) \/ RetryTask(r)
    \/ \E a \in Account, phase \in Phase, full \in BOOLEAN : Create(r, a, phase, full)
    \/ CreateFails(r)
    \/ Insert(r) \/ WakePoller(r) \/ SaveKey(r)
    \/ Disconnect(r)

Polling ==
    \/ PollTick \/ PollWake \/ Query
    \/ \E a \in Account : List(a) \/ ListFails(a)
    \/ \E r \in Request : Apply(r)

Cleaning(c) ==
    \/ StartCleaning(c)
    \/ \E r \in Request : SkipTask(c, r) \/ DeleteFile(c, r)
    \/ MarkCleaned(c)

Operating ==
    \/ \E kind \in {"cancel", "delete"}, r \in Request : StartCall(kind, r)
    \/ \E c \in calls : DropRemote(c) \/ FinishCall(c)
    \/ \E a \in Account : WipeRemote(a) \/ WipeRows(a)
    \/ Restart

Next ==
    \/ \E r \in Request : Submission(r)
    \/ \E r \in Request : (\E phase \in Phase : Progress(r, phase)) \/ Age(r)
    \/ Polling
    \/ \E c \in Cleaner : Cleaning(c)
    \/ Operating

Spec == Init /\ [][Next]_vars

\* The goroutines of the poller and of the cleaner are scheduled and their
\* tickers fire; PikPak answers a list request of an account, and lets a file be
\* deleted, if asked again and again.  Nobody has to submit, operate or finish a
\* download.
FairSpec ==
    /\ Spec
    /\ WF_vars(Polling) /\ \A a \in Account : SF_vars(List(a))
    /\ \A c \in Cleaner :
         WF_vars(Cleaning(c)) /\ \A r \in Request : SF_vars(DeleteFile(c, r))

(***************************************************************************)
(* Properties                                                              *)
(***************************************************************************)

\* Every variable stays in its domain: a poll holds a phase only of a task it
\* has still to write, and the local variables keep the shape the code gives.
TypeOK ==
    /\ row \in [Request -> Row]
    /\ key \in [Key -> Request \cup {Nothing}]
    /\ req \in [Request -> Req]
    /\ home \in [Request -> Account \cup {Nothing}]
    /\ remote \in [Request -> RemoteTask]
    /\ wake \in BOOLEAN
    /\ poll \in Poll
    /\ \A r \in Request \ poll.todo : poll.seen[r] = "unseen"
    /\ clean \in [Cleaner -> [todo : SUBSET Request, current : Request \cup {Nothing}]]
    /\ calls \subseteq Call
    /\ wiping \subseteq Account
    /\ owed \subseteq Request
    /\ events \in Nat

\* A success the client hears names a task that was recorded, be it the
\* request's own or one replayed for its key: no disconnection or restart
\* leaves a key that replays an unrecorded task (offline/service.go:148-184).
AnsweredTaskRecorded ==
    \A r \in Request : req[r].pc = "answered" => row[req[r].result].status # "none"

\* Once a request with some key has been answered, no later request with that
\* key reaches the scheduler, across restarts too (offline/service.go:99-109).
AnsweredKeyCreatesNothing ==
    [][\A r, q \in Request :
         /\ req[q].pc = "answered" /\ req[q].key # NoKey
         /\ req[r].pc = "idle" /\ req'[r].key = req[q].key
         => req'[r].pc # "create"]_vars

\* A running task whose submission has signalled the poller is in the next
\* query, without waiting for the ticker: the one-place channel loses no
\* signal that matters (offline/service.go:78-85).
NoLostWake ==
    \A r \in owed :
        row[r].status = "RUNNING" /\ req[r].pc \notin {"insert", "wake"}
        => wake \/ poll.pc = "query"

\* The download is complete, or PikPak's answer to its creation was taken to say
\* so: a task at progress 100 may still be running, and may end in an error
\* (offline/service.go:141).
SaidComplete(r) == remote[r].phase = "complete" \/ req[r].instant

\* A row says how its download ended only if PikPak said so, however late a poll
\* or a cleaner writes: COMPLETE and CLEANED after the phase or the answer to the
\* creation, ERROR after the phase alone.
StatusMatchesOutcome ==
    \A r \in Request :
        /\ row[r].status \in {"COMPLETE", "CLEANED"} => SaidComplete(r)
        /\ row[r].status = "ERROR" => remote[r].phase = "error"

\* A finished task is not reopened, and a cleaned one is not completed again,
\* by a poll that started earlier: only an operator takes it further.
FinishedNotReopened ==
    [][\A r \in Request :
         /\ row[r].status = "COMPLETE"
            => row'[r].status \in {"COMPLETE", "CLEANED", "CANCELLED", "deleted"}
         /\ row[r].status \in {"ERROR", "CLEANED"}
            => row'[r].status \in {row[r].status, "CANCELLED", "deleted"}]_vars

Unnoticed(r) ==
    /\ row[r].status = "RUNNING"
    /\ remote[r].listed /\ remote[r].phase \in {"complete", "error"}

\* A download that is over while PikPak still lists it does not stay RUNNING,
\* though lists of its account fail now and then (offline/poller.go:118).
EndNoticed == \A r \in Request : Unnoticed(r) ~> ~ Unnoticed(r)

Overdue(r) == row[r].status = "COMPLETE" /\ row[r].doneAt = "old"

\* A completed task past its retention does not stay COMPLETE, though a run of
\* the cleaner may skip its account (offline/cleaner.go:26).
ExpiredTaskCleaned == \A r \in Request : Overdue(r) ~> ~ Overdue(r)

\* Two requests with one key are answered with one task (offline_test.go:80).
OneTaskPerKey ==
    \A r, q \in Request :
        /\ req[r].key = req[q].key /\ req[r].key # NoKey
        /\ req[r].pc = "answered" /\ req[q].pc = "answered"
        => req[r].result = req[q].result

\* A cancelled task stays cancelled until it is deleted (offline/service.go:386).
CancelledStays ==
    [][\A r \in Request : row[r].status = "CANCELLED"
         => row'[r].status \in {"CANCELLED", "deleted"}]_vars

=============================================================================
