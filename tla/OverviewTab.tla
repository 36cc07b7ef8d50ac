---------------------------- MODULE OverviewTab ----------------------------
(***************************************************************************)
(* The overview tab of the settings page (web/src/pages/SettingsPage.tsx): *)
(* the monitor of the offline tasks.                                       *)
(*                                                                         *)
(* An effect loads the tasks of the chosen status and then asks again      *)
(* every five seconds, without waiting for the last answer; the closures   *)
(* of the effect and of the handlers keep the status chosen when they were *)
(* made.  Every answer replaces the list, whatever is chosen by then.  The *)
(* dashboard's figures come along and are left out, but for the failures   *)
(* they add.                                                               *)
(***************************************************************************)
EXTENDS ApiCalls

CONSTANTS
    MaxRows,            \* bound on the task rows
    StartRows,          \* what the table may hold at first
    Filter,             \* the choices of the status menu that are used
    MaxOverviewActs     \* bound on the user's acts and the tasks' progress

RowStatus == {"UNBORN", "RUNNING", "COMPLETE", "ERROR", "CANCELLED", "DELETED"}

ASSUME OverviewAssumption ==
    /\ MaxRows \in Nat \ {0} /\ MaxOverviewActs \in Nat
    /\ StartRows \subseteq [1 .. MaxRows -> RowStatus]
    /\ "ALL" \in Filter /\ Filter \subseteq {"ALL", "RUNNING", "COMPLETE", "ERROR", "CANCELLED"}

VARIABLES
    taskRows,       \* the offline_tasks table
    overview,       \* the tab's state hooks
    overviewCalls,  \* the calls of the tab
    overviewActs    \* acts so far

overviewVars == <<taskRows, overview, overviewCalls, overviewActs>>

TaskRow == 1 .. MaxRows

Rows == [TaskRow -> RowStatus]

NoRows == [t \in TaskRow |-> "UNBORN"]

\* listTasks(filter, 50, 0): a row that is not listed counts as unborn.
Matching(filter) ==
    [t \in TaskRow |->
        IF taskRows[t] # "DELETED" /\ filter \in {"ALL", taskRows[t]}
        THEN taskRows[t] ELSE "UNBORN"]

\* active: the tab is the active one, and so the interval runs.
OverviewState ==
    [mounted : BOOLEAN, active : BOOLEAN, filter : Filter, tasks : Rows,
     loading : BOOLEAN]

FreshOverview ==
    [mounted |-> TRUE, active |-> TRUE, filter |-> "ALL", tasks |-> NoRows,
     loading |-> TRUE]

OverviewCall ==
    [kind : {"idle", "load", "poll", "cancel", "retry", "delete"}, mine : BOOLEAN,
     filter : Filter, row : 0 .. MaxRows, state : CallState, list : Rows]

NoOverviewCall ==
    [kind |-> "idle", mine |-> FALSE, filter |-> "ALL", row |-> 0,
     state |-> "sent", list |-> NoRows]

OverviewAsk(kind, filter, row) ==
    [NoOverviewCall EXCEPT !.kind = kind, !.mine = TRUE, !.filter = filter, !.row = row]

OverviewInit ==
    /\ taskRows \in StartRows
    /\ overview = FreshOverview
    /\ overviewCalls =
           [s \in Slot |-> IF s = 1 THEN OverviewAsk("load", "ALL", 0) ELSE NoOverviewCall]
    /\ overviewActs = 0

-----------------------------------------------------------------------------
(***************************************************************************)
(* The user and the interval.                                              *)
(***************************************************************************)

OverviewAct == overviewActs < MaxOverviewActs /\ overviewActs' = overviewActs + 1

SendOverviewCall(call) ==
    \E s \in Free(overviewCalls) : overviewCalls' = [overviewCalls EXCEPT ![s] = call]

\* The effect on [activeTab, statusFilter, isAdmin]: loadOverviewData, and
\* the interval starts over.
ShowOverview(p) ==
    /\ overview' = [p EXCEPT !.loading = TRUE]
    /\ SendOverviewCall(OverviewAsk("load", p.filter, 0))

ChooseFilter(filter) ==
    /\ OverviewAct
    /\ overview.active /\ filter # overview.filter
    /\ ShowOverview([overview EXCEPT !.filter = filter])
    /\ UNCHANGED taskRows

\* The refresh button is disabled during a load.
RefreshOverview ==
    /\ OverviewAct
    /\ overview.active /\ ~overview.loading
    /\ ShowOverview(overview)
    /\ UNCHANGED taskRows

\* Mutant: the interval keeps the filter it was first started with.
PolledFilter == "ALL"

\* The interval's closure is renewed with the filter.
PollFilter == overview.filter

\* The manual cleanup of the policy tab comes back, whichever tab is shown by
\* then: it calls the loadOverviewData of its render.
CleanupLoads(filter) ==
    /\ OverviewAct
    /\ overview.mounted
    /\ overview' = [overview EXCEPT !.loading = TRUE]
    /\ SendOverviewCall(OverviewAsk("load", filter, 0))
    /\ UNCHANGED taskRows

\* The interval's callback.
PollOverview ==
    /\ overview.active
    /\ SendOverviewCall(OverviewAsk("poll", PollFilter, 0))
    /\ UNCHANGED <<taskRows, overview, overviewActs>>

\* handleCancelTask, handleRetryTask and handleDeleteTask up to their
\* awaits: each row offers what its listed status allows.
OverviewButton(kind, t) ==
    /\ OverviewAct
    /\ overview.active
    /\ CASE kind = "cancel" -> overview.tasks[t] = "RUNNING"
         [] kind = "retry" -> overview.tasks[t] = "ERROR"
         [] kind = "delete" -> overview.tasks[t] # "UNBORN"
    /\ SendOverviewCall(OverviewAsk(kind, overview.filter, t))
    /\ UNCHANGED <<taskRows, overview>>

\* Another tab: the hooks stay, the interval is cleared.
LeaveOverview ==
    /\ OverviewAct
    /\ overview.active
    /\ overview' = [overview EXCEPT !.active = FALSE]
    /\ UNCHANGED <<taskRows, overviewCalls>>

ReturnToOverview ==
    /\ overview.mounted /\ ~overview.active
    /\ ShowOverview([overview EXCEPT !.active = TRUE])
    /\ UNCHANGED <<taskRows, overviewActs>>

\* The file browser takes the place of the settings page.
LeaveSettings ==
    /\ OverviewAct
    /\ overview.mounted
    /\ overview' = [FreshOverview EXCEPT !.mounted = FALSE, !.active = FALSE, !.loading = FALSE]
    /\ overviewCalls' = Orphaned(overviewCalls)
    /\ UNCHANGED taskRows

\* The page starts on the overview.
ReturnToSettings ==
    /\ ~overview.mounted
    /\ ShowOverview(FreshOverview)
    /\ UNCHANGED <<taskRows, overviewActs>>

-----------------------------------------------------------------------------
(***************************************************************************)
(* The server.                                                             *)
(***************************************************************************)

OverviewServed(s, state, list) ==
    overviewCalls' = [overviewCalls EXCEPT ![s] = [@ EXCEPT !.state = state, !.list = list]]

OverviewSent(s, kinds) == overviewCalls[s].kind \in kinds /\ overviewCalls[s].state = "sent"

ServeRows(s) ==
    /\ OverviewSent(s, {"load", "poll"})
    /\ OverviewServed(s, "ok", Matching(overviewCalls[s].filter))
    /\ UNCHANGED <<taskRows, overview, overviewActs>>

RefuseRows(s) ==
    /\ OverviewSent(s, {"load", "poll"})
    /\ OverviewServed(s, "error", NoRows)
    /\ UNCHANGED <<taskRows, overview, overviewActs>>

\* cancelTask and deleteTask, whatever the row's status is by now.
ServeRowUpdate(s) ==
    LET t == overviewCalls[s].row
        there == taskRows[t] # "DELETED"
        after == IF overviewCalls[s].kind = "cancel" THEN "CANCELLED" ELSE "DELETED"
    IN  /\ OverviewSent(s, {"cancel", "delete"})
        /\ \E done \in BOOLEAN, state \in {"ok", "error"} :
            /\ state = "ok" => done /\ there
            /\ taskRows' = IF done /\ there THEN [taskRows EXCEPT ![t] = after] ELSE taskRows
            /\ OverviewServed(s, state, NoRows)
        /\ UNCHANGED <<overview, overviewActs>>

\* retryTask submits the link again, as a row of its own; a link that PikPak
\* has already is complete at once.
ServeRetry(s) ==
    /\ OverviewSent(s, {"retry"})
    /\ \E state \in {"ok", "error"} :
        /\ OverviewServed(s, state, NoRows)
        /\ \/ state = "error" /\ UNCHANGED taskRows
           \/ \E t \in TaskRow :
                /\ taskRows[t] = "UNBORN" /\ \A u \in 1 .. t - 1 : taskRows[u] # "UNBORN"
                /\ \E new \in {"RUNNING", "COMPLETE"} :
                       taskRows' = [taskRows EXCEPT ![t] = new]
    /\ UNCHANGED <<overview, overviewActs>>

\* The poller sees a task's end.
RowEnds(t) ==
    /\ OverviewAct
    /\ taskRows[t] = "RUNNING"
    /\ \E end \in {"COMPLETE", "ERROR"} : taskRows' = [taskRows EXCEPT ![t] = end]
    /\ UNCHANGED <<overview, overviewCalls>>

-----------------------------------------------------------------------------
(***************************************************************************)
(* The second halves of the handlers.                                      *)
(***************************************************************************)

EndOverviewCall(s, p) ==
    /\ overviewCalls' = [overviewCalls EXCEPT ![s] = NoOverviewCall]
    /\ overview' = IF overviewCalls[s].mine THEN p ELSE overview
    /\ UNCHANGED <<taskRows, overviewActs>>

WithRows(s, p) ==
    IF Succeeded(overviewCalls, s) THEN [p EXCEPT !.tasks = overviewCalls[s].list] ELSE p

\* The rest of loadOverviewData; a failure of either answer is logged.
OverviewLoaded(s) ==
    /\ Back(overviewCalls, s, "load")
    /\ EndOverviewCall(s, WithRows(s, [overview EXCEPT !.loading = FALSE]))

\* The interval's answer; nobody catches a failure.
OverviewPolled(s) ==
    /\ Back(overviewCalls, s, "poll")
    /\ EndOverviewCall(s, WithRows(s, overview))

\* After a cancellation or a retry the handler calls the loadOverviewData
\* of its render, with the filter of that time.
RowUpdated(s) ==
    /\ Back(overviewCalls, s, "cancel") \/ Back(overviewCalls, s, "retry")
    /\ IF Succeeded(overviewCalls, s)
       THEN /\ overviewCalls' = [overviewCalls EXCEPT
                   ![s] = [OverviewAsk("load", overviewCalls[s].filter, 0)
                               EXCEPT !.mine = overviewCalls[s].mine]]
            /\ overview' = IF overviewCalls[s].mine
                           THEN [overview EXCEPT !.loading = TRUE] ELSE overview
            /\ UNCHANGED <<taskRows, overviewActs>>
       ELSE EndOverviewCall(s, overview)

\* handleDeleteTask takes the row out of the list of this moment.
RowDeleted(s) ==
    /\ Back(overviewCalls, s, "delete")
    /\ EndOverviewCall(s,
           IF Succeeded(overviewCalls, s)
           THEN [overview EXCEPT !.tasks = [@ EXCEPT ![overviewCalls[s].row] = "UNBORN"]]
           ELSE overview)

-----------------------------------------------------------------------------
OverviewCallStep(s) ==
    \/ ServeRows(s)
    \/ RefuseRows(s)
    \/ ServeRowUpdate(s)
    \/ ServeRetry(s)
    \/ OverviewLoaded(s)
    \/ OverviewPolled(s)
    \/ RowUpdated(s)
    \/ RowDeleted(s)

OverviewNext ==
    \/ \E filter \in Filter : ChooseFilter(filter) \/ CleanupLoads(filter)
    \/ RefreshOverview
    \/ PollOverview
    \/ \E kind \in {"cancel", "retry", "delete"}, t \in TaskRow : OverviewButton(kind, t)
    \/ LeaveOverview
    \/ ReturnToOverview
    \/ LeaveSettings
    \/ ReturnToSettings
    \/ \E t \in TaskRow : RowEnds(t)
    \/ \E s \in Slot : OverviewCallStep(s)

OverviewSpec == OverviewInit /\ [][OverviewNext]_overviewVars

\* The interval fires, calls are answered, and not for ever with an error.
OverviewFairness ==
    /\ WF_overviewVars(PollOverview)
    /\ \A s \in Slot : /\ WF_overviewVars(OverviewCallStep(s))
                       /\ SF_overviewVars(ServeRows(s))

OverviewFairSpec == OverviewSpec /\ OverviewFairness

-----------------------------------------------------------------------------
(***************************************************************************)
(* Properties.                                                             *)
(***************************************************************************)

\* Every variable stays in its domain.
OverviewTypeOK ==
    /\ taskRows \in Rows
    /\ overview \in OverviewState
    /\ overviewCalls \in [Slot -> OverviewCall]
    /\ overviewActs \in 0 .. MaxOverviewActs

\* Once the user and the tasks have come to rest, the open monitor ends up
\* showing exactly the tasks of the chosen status and stays so: answers for
\* another choice, from before a change, or that never came are made good
\* by the interval.
OverviewCatchesUp ==
    <>[](overviewActs = MaxOverviewActs /\ overview.active
             => overview.tasks = Matching(overview.filter))
=============================================================================
