---------------------------- MODULE TaskWatcher ----------------------------
(***************************************************************************)
(* The task watcher of the file browser (checkTaskStatus and its three     *)
(* effects in web/src/pages/FilesPage.tsx).                                *)
(*                                                                         *)
(* A loop asks for the newest tasks, waits for the answer, sets a timer    *)
(* and asks again.  A change of folder ends the loop and begins another; a *)
(* submission asks once more on the side.  What is still in flight then    *)
(* comes back all the same, and all the checks of one page share the       *)
(* remembered set of active tasks.  A task seen active before and complete *)
(* now is announced, and the folder is listed again.                       *)
(***************************************************************************)
EXTENDS Integers, FiniteSets

CONSTANTS
    MaxChecks,      \* bound on the checks that are in flight at once
    MaxTasks,       \* bound on the tasks submitted
    Limit,          \* how many of the newest tasks a check asks for
    MaxWatchActs    \* bound on navigation, submissions and remounts

ASSUME WatcherAssumption ==
    /\ MaxChecks \in Nat \ {0}
    /\ MaxTasks \in Nat \ {0} /\ Limit \in Nat \ {0} /\ MaxWatchActs \in Nat

VARIABLES
    status,     \* the server's tasks, numbered in the order of submission
    watch,      \* the state, refs and timer of the mounted page
    checks,     \* the checks in flight
    noticed,    \* history: tasks whose end was announced
    watchActs   \* acts so far

watcherVars == <<status, watch, checks, noticed, watchActs>>

Task == 1 .. MaxTasks

WatchSlot == 1 .. MaxChecks

\* PENDING counts as RUNNING; ERROR stands for the ends that are no success.
TaskStatus == {"NONE", "RUNNING", "COMPLETE", "ERROR"}

(***************************************************************************)
(* known is knownActiveTasksRef, initial is initialMountRef, timer whether *)
(* the loop's timeout is pending, toast the task named by the notice.      *)
(***************************************************************************)
Watch ==
    [mounted : BOOLEAN, known : SUBSET Task, initial : BOOLEAN, timer : BOOLEAN,
     toast : Task \union {0}, submitted : BOOLEAN]

FreshWatch(submitted) ==
    [mounted |-> TRUE, known |-> {}, initial |-> TRUE, timer |-> FALSE,
     toast |-> 0, submitted |-> submitted]

(***************************************************************************)
(* A check belongs to the loop ("live"), to a loop whose effect has been   *)
(* cleaned up ("dead"), to a submission ("once") or to a page that is gone *)
(* ("gone").  It waits for the tasks, then perhaps for the files.          *)
(***************************************************************************)
Check ==
    [use : {"idle", "live", "dead", "once", "gone"},
     state : {"sent", "ok", "error", "files"}, list : [Task -> TaskStatus]]

NoTasks == [t \in Task |-> "NONE"]

NewCheck(use) == [use |-> use, state |-> "sent", list |-> NoTasks]

Idle == NewCheck("idle")

\* A slot for another check, or none: the first, since slots are all alike.
FreeCheck(taken) ==
    LET free == {s \in WatchSlot \ taken : checks[s].use = "idle"}
    IN  {s \in free : \A r \in free : s <= r}

WatcherInit ==
    /\ status = NoTasks
    /\ watch = FreshWatch(FALSE)
    /\ checks = [c \in WatchSlot |-> IF c = 1 THEN NewCheck("live") ELSE Idle]
    /\ noticed = {}
    /\ watchActs = 0

-----------------------------------------------------------------------------
(***************************************************************************)
(* The server's tasks.                                                     *)
(***************************************************************************)

Submitted == {t \in Task : status[t] # "NONE"}

NextTask == Cardinality(Submitted) + 1

\* listTasks("", 20, 0): the newest tasks.
Newest == {t \in Submitted : t > Cardinality(Submitted) - Limit}

NewestTasks == [t \in Task |-> IF t \in Newest THEN status[t] ELSE "NONE"]

Disturb == watchActs < MaxWatchActs /\ watchActs' = watchActs + 1

\* A task ends, well or not.
EndTask(t) ==
    /\ status[t] = "RUNNING"
    /\ \E end \in {"COMPLETE", "ERROR"} : status' = [status EXCEPT ![t] = end]
    /\ UNCHANGED <<watch, checks, noticed, watchActs>>

\* A task submitted elsewhere; instant ones are complete at once.
SubmitElsewhere ==
    /\ Disturb
    /\ NextTask \in Task
    /\ \E new \in {"RUNNING", "COMPLETE"} : status' = [status EXCEPT ![NextTask] = new]
    /\ UNCHANGED <<watch, checks, noticed>>

-----------------------------------------------------------------------------
(***************************************************************************)
(* The effects.                                                            *)
(***************************************************************************)

\* The effect on newTaskSubmitted asks at once, beside the loop.
Submit ==
    /\ Disturb
    /\ watch.mounted
    /\ NextTask \in Task
    /\ \E new \in {"RUNNING", "COMPLETE"} : status' = [status EXCEPT ![NextTask] = new]
    /\ watch' = [watch EXCEPT !.submitted = TRUE]
    /\ \E s \in FreeCheck({}) : checks' = [checks EXCEPT ![s] = NewCheck("once")]
    /\ UNCHANGED noticed

\* The loop's check, and after a submission one on the side.
Started(s, r, old, submitted) ==
    [c \in WatchSlot |->
        IF c = s THEN NewCheck("live")
        ELSE IF c = r /\ submitted THEN NewCheck("once")
        ELSE old[c]]

\* The cleanup of the polling effect: active = false, clearTimeout.
Ended(use) ==
    [c \in WatchSlot |->
        IF checks[c].use = "live" THEN [checks[c] EXCEPT !.use = use] ELSE checks[c]]

\* Another folder: checkTaskStatus is a new callback, and the effects that
\* depend on it run again.
ChangeFolder ==
    /\ Disturb
    /\ watch.mounted
    /\ watch' = [watch EXCEPT !.timer = FALSE]
    /\ \E s \in FreeCheck({}) : \E r \in FreeCheck({s}) :
        checks' = Started(s, r, Ended("dead"), watch.submitted)
    /\ UNCHANGED <<status, noticed>>

\* The page is left: its checks come back to nothing.
LeavePage ==
    /\ Disturb
    /\ watch.mounted
    /\ watch' = [watch EXCEPT !.mounted = FALSE, !.timer = FALSE]
    /\ checks' = [c \in WatchSlot |->
           IF checks[c].use = "idle" THEN Idle ELSE [checks[c] EXCEPT !.use = "gone"]]
    /\ UNCHANGED <<status, noticed>>

\* A fresh page with fresh refs; App's submission count is still there.
ReturnToPage ==
    /\ ~watch.mounted
    /\ watch' = FreshWatch(watch.submitted)
    /\ \E s \in FreeCheck({}) : \E r \in FreeCheck({s}) :
        checks' = Started(s, r, checks, watch.submitted)
    /\ UNCHANGED <<status, noticed, watchActs>>

\* The timeout of the loop: poll() sends the next check.
Poll ==
    /\ watch.timer
    /\ watch' = [watch EXCEPT !.timer = FALSE]
    /\ \E s \in FreeCheck({}) : checks' = [checks EXCEPT ![s] = NewCheck("live")]
    /\ UNCHANGED <<status, noticed, watchActs>>

\* Four seconds, or the notice's close button.
DismissToast ==
    /\ watch.toast # 0
    /\ watch' = [watch EXCEPT !.toast = 0]
    /\ UNCHANGED <<status, checks, noticed, watchActs>>

-----------------------------------------------------------------------------
(***************************************************************************)
(* checkTaskStatus.                                                        *)
(***************************************************************************)

ServeTasks(s) ==
    /\ checks[s].use # "idle" /\ checks[s].state = "sent"
    /\ checks' = [checks EXCEPT ![s] = [@ EXCEPT !.state = "ok", !.list = NewestTasks]]
    /\ UNCHANGED <<status, watch, noticed, watchActs>>

FailTasks(s) ==
    /\ checks[s].use # "idle" /\ checks[s].state = "sent"
    /\ checks' = [checks EXCEPT ![s] = [@ EXCEPT !.state = "error"]]
    /\ UNCHANGED <<status, watch, noticed, watchActs>>

Active(list) == {t \in Task : list[t] = "RUNNING"}

Complete(list) == {t \in Task : list[t] = "COMPLETE"}

\* Mutant: the remembered set is replaced before it is looked at.
CompletedLate(list, known) == Complete(list) \intersect Active(list)

\* completedFound: complete now, active when last looked.
Completed(list, known) == Complete(list) \intersect known

\* Mutant: the loop sets its timer without looking at active again.
SetsTimerAnyway(use) == use \in {"live", "dead"}

\* After the check, poll() sets the timeout if its effect still stands.
SetsTimer(use) == use = "live"

\* The check returns to its caller, which goes on with w.
Finish(s, w) ==
    /\ checks' = [checks EXCEPT ![s] = Idle]
    /\ watch' = IF checks[s].use = "gone" THEN watch
                ELSE [w EXCEPT !.initial = FALSE,
                               !.timer = @ \/ SetsTimer(checks[s].use)]

\* The tasks are there.  The list is newest first, so the oldest of several
\* ends gives the notice its name.  The check then waits for the files.
TasksBack(s) ==
    LET ended == Completed(checks[s].list, watch.known)
        w == [watch EXCEPT !.known = Active(checks[s].list)]
    IN  /\ checks[s].use # "idle" /\ checks[s].state = "ok"
        /\ IF ended # {} /\ ~watch.initial /\ checks[s].use # "gone"
           THEN /\ \E t \in ended : /\ \A u \in ended : t <= u
                                   /\ watch' = [w EXCEPT !.toast = t]
                /\ checks' = [checks EXCEPT ![s] = [@ EXCEPT !.state = "files"]]
                /\ noticed' = noticed \union ended
           ELSE Finish(s, w) /\ UNCHANGED noticed
        /\ UNCHANGED <<status, watchActs>>

\* listTasks failed: checkTaskStatus returns false, nothing is forgotten.
TasksFailed(s) ==
    /\ checks[s].use # "idle" /\ checks[s].state = "error"
    /\ Finish(s, watch)
    /\ UNCHANGED <<status, noticed, watchActs>>

\* The files are there, or their listing failed.
FilesBack(s) ==
    /\ checks[s].use # "idle" /\ checks[s].state = "files"
    /\ Finish(s, watch)
    /\ UNCHANGED <<status, noticed, watchActs>>

-----------------------------------------------------------------------------
CheckStep(s) ==
    \/ ServeTasks(s)
    \/ FailTasks(s)
    \/ TasksBack(s)
    \/ TasksFailed(s)
    \/ FilesBack(s)

WatcherNext ==
    \/ \E t \in Task : EndTask(t)
    \/ SubmitElsewhere
    \/ Submit
    \/ ChangeFolder
    \/ LeavePage
    \/ ReturnToPage
    \/ Poll
    \/ DismissToast
    \/ \E s \in WatchSlot : CheckStep(s)

WatcherSpec == WatcherInit /\ [][WatcherNext]_watcherVars

\* Timers fire, calls are answered, and not for ever with an error.
WatcherFairness ==
    /\ WF_watcherVars(Poll)
    /\ \A s \in WatchSlot : WF_watcherVars(CheckStep(s)) /\ SF_watcherVars(ServeTasks(s))

WatcherFairSpec == WatcherSpec /\ WatcherFairness

-----------------------------------------------------------------------------
(***************************************************************************)
(* Properties.                                                             *)
(***************************************************************************)

\* Every variable stays in its domain.
WatcherTypeOK ==
    /\ status \in [Task -> TaskStatus]
    /\ watch \in Watch
    /\ checks \in [WatchSlot -> Check]
    /\ noticed \subseteq Task
    /\ watchActs \in 0 .. MaxWatchActs

Live == {s \in WatchSlot : checks[s].use = "live"}

\* A mounted page has one polling loop and no more: either its timer is
\* pending or one check of it is out, however navigation, remounts and
\* answers of ended loops interleave.  A page that is gone polls no more.
OnePollingLoop ==
    /\ watch.mounted => (watch.timer <=> Live = {})
    /\ ~watch.mounted => ~watch.timer /\ Live = {}
    /\ \A r, s \in Live : r = s

\* Nothing but the loop is in flight any more, nothing else will come, and
\* the loop has not been answered from before the page knew t.
Undisturbed(t) ==
    /\ watch.mounted /\ watchActs = MaxWatchActs
    /\ t \in watch.known /\ t \in Newest
    /\ \A s \in WatchSlot :
        \/ checks[s].use \in {"idle", "gone"}
        \/ /\ checks[s].use = "live"
           /\ checks[s].state = "ok" => checks[s].list[t] # "NONE"

\* Once navigation and submissions have stopped, the end of every task the
\* page knows to be active is noticed, even if the server fails to answer
\* now and then.
UndisturbedEndNoticed ==
    \A t \in Task : status[t] = "COMPLETE" /\ Undisturbed(t) ~> t \in noticed
=============================================================================
