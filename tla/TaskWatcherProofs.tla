------------------------- MODULE TaskWatcherProofs -------------------------
(***************************************************************************)
(* Theorems about TaskWatcher: its type invariant, and that a mounted page *)
(* keeps exactly one polling loop; and about OverviewTab and the two of    *)
(* them in PollingParts.                                                   *)
(***************************************************************************)
EXTENDS PollingParts, TLAPS

\* The two are inductive together.
WatcherInv == WatcherTypeOK /\ OnePollingLoop

\* What a page and a check start from.
LEMMA WatchStartValues ==
    /\ NoTasks \in [Task -> TaskStatus]
    /\ \A b \in BOOLEAN : FreshWatch(b) \in Watch
    /\ \A use \in {"idle", "live", "dead", "once", "gone"} :
           NewCheck(use) \in Check /\ NewCheck(use).use = use
    /\ Idle \in Check /\ Idle.use = "idle"
<1>1. NoTasks \in [Task -> TaskStatus]
  BY DEF NoTasks, TaskStatus
<1>2. \A b \in BOOLEAN : FreshWatch(b) \in Watch
  BY DEF FreshWatch, Watch
<1>3. \A use \in {"idle", "live", "dead", "once", "gone"} :
           NewCheck(use) \in Check /\ NewCheck(use).use = use
  BY <1>1 DEF NewCheck, Check
<1> QED
  BY <1>1, <1>2, <1>3 DEF Idle

\* The tasks that a check brings are tasks.
LEMMA WatchLists ==
    ASSUME WatcherTypeOK
    PROVE  NewestTasks \in [Task -> TaskStatus]
  BY DEF NewestTasks, WatcherTypeOK, TaskStatus

\* An act counts.
LEMMA WatchActCounts ==
    ASSUME WatcherTypeOK, Disturb
    PROVE  watchActs' \in 0 .. MaxWatchActs
  BY WatcherAssumption DEF Disturb, WatcherTypeOK

\* The loop's checks are the same, and so is its timer.
LEMMA LoopKept ==
    ASSUME OnePollingLoop,
           \A c \in WatchSlot : checks'[c].use = "live" <=> checks[c].use = "live",
           watch'.mounted = watch.mounted, watch'.timer = watch.timer
    PROVE  OnePollingLoop'
<1>1. Live' = Live
  BY DEF Live
<1> QED
  BY <1>1 DEF OnePollingLoop

\* A mounted page whose loop has one check out, and no timer.
LEMMA LoopOut ==
    ASSUME NEW s \in WatchSlot,
           \A c \in WatchSlot : checks'[c].use = "live" <=> c = s,
           watch'.mounted, ~watch'.timer
    PROVE  OnePollingLoop'
<1>1. Live' = {s}
  BY DEF Live
<1> QED
  BY <1>1 DEF OnePollingLoop

(***************************************************************************)
(* The server and the effects                                              *)
(***************************************************************************)

\* Tasks come and go without the page.
LEMMA ServerSteps ==
    ASSUME WatcherInv, (\E t \in Task : EndTask(t)) \/ SubmitElsewhere
    PROVE  WatcherInv'
<1>1. /\ UNCHANGED <<watch, checks, noticed>>
      /\ watchActs' \in 0 .. MaxWatchActs
  BY WatchActCounts DEF EndTask, SubmitElsewhere, WatcherInv, WatcherTypeOK
<1>2. status' \in [Task -> TaskStatus]
  BY DEF EndTask, SubmitElsewhere, WatcherInv, WatcherTypeOK, TaskStatus
<1>3. OnePollingLoop'
  BY <1>1, LoopKept DEF WatcherInv
<1> QED
  BY <1>1, <1>2, <1>3 DEF WatcherInv, WatcherTypeOK

\* A check on the side is not the loop's.
LEMMA SubmitStep ==
    ASSUME WatcherInv, Submit
    PROVE  WatcherInv'
<1>t. watch \in Watch /\ checks \in [WatchSlot -> Check] /\ status \in [Task -> TaskStatus]
  BY DEF WatcherInv, WatcherTypeOK
<1>1. PICK s \in FreeCheck({}) : checks' = [checks EXCEPT ![s] = NewCheck("once")]
  BY DEF Submit
<1>2. s \in WatchSlot /\ checks[s].use = "idle"
  BY <1>1 DEF FreeCheck
<1>3. NewCheck("once") \in Check /\ NewCheck("once").use = "once"
  BY WatchStartValues
<1>4. /\ checks' \in [WatchSlot -> Check]
      /\ \A c \in WatchSlot : checks'[c].use = "live" <=> checks[c].use = "live"
  BY <1>t, <1>1, <1>2, <1>3
<1>5. /\ watch' \in Watch /\ watch'.mounted = watch.mounted /\ watch'.timer = watch.timer
  BY <1>t DEF Submit, Watch
<1>6. status' \in [Task -> TaskStatus]
  BY <1>t DEF Submit, TaskStatus
<1>7. OnePollingLoop'
  BY <1>4, <1>5, LoopKept DEF WatcherInv
<1> QED
  BY <1>4, <1>5, <1>6, <1>7, WatchActCounts DEF Submit, WatcherInv, WatcherTypeOK

\* A loop begins, and no other goes on.
LEMMA LoopBegins ==
    ASSUME NEW old \in [WatchSlot -> Check], NEW submitted \in BOOLEAN,
           \A c \in WatchSlot : old[c].use # "live",
           NEW s \in FreeCheck({}), NEW r \in FreeCheck({s}),
           checks' = Started(s, r, old, submitted),
           watch'.mounted, ~watch'.timer
    PROVE  checks' \in [WatchSlot -> Check] /\ OnePollingLoop'
<1>1. s \in WatchSlot /\ r \in WatchSlot /\ r # s
  BY DEF FreeCheck
<1>2. /\ NewCheck("once") \in Check /\ NewCheck("once").use = "once"
      /\ NewCheck("live") \in Check /\ NewCheck("live").use = "live"
  BY WatchStartValues
<1>3. /\ checks' \in [WatchSlot -> Check]
      /\ \A c \in WatchSlot : checks'[c].use = "live" <=> c = s
  BY <1>1, <1>2 DEF Started
<1> QED
  BY <1>1, <1>3, LoopOut

\* The effects of a change of folder, with their cleanups.
LEMMA NavigationSteps ==
    ASSUME WatcherInv, ChangeFolder \/ LeavePage \/ ReturnToPage
    PROVE  WatcherInv'
<1>t. /\ watch \in Watch /\ checks \in [WatchSlot -> Check] /\ status \in [Task -> TaskStatus]
      /\ watch.submitted \in BOOLEAN /\ noticed \subseteq Task
  BY DEF WatcherInv, WatcherTypeOK, Watch
<1>1. CASE ChangeFolder
  <2>1. PICK s \in FreeCheck({}) : \E r \in FreeCheck({s}) :
            checks' = Started(s, r, Ended("dead"), watch.submitted)
    BY <1>1 DEF ChangeFolder
  <2>2. PICK r \in FreeCheck({s}) : checks' = Started(s, r, Ended("dead"), watch.submitted)
    BY <2>1
  <2>3. \A c \in WatchSlot : /\ [checks[c] EXCEPT !.use = "dead"] \in Check
                             /\ [checks[c] EXCEPT !.use = "dead"].use # "live"
    BY <1>t DEF Check
  <2>4. /\ Ended("dead") \in [WatchSlot -> Check]
        /\ \A c \in WatchSlot : Ended("dead")[c].use # "live"
    BY <1>t, <2>3 DEF Ended
  <2>5. watch' \in Watch /\ watch'.mounted /\ ~watch'.timer
    BY <1>1, <1>t DEF ChangeFolder, Watch
  <2>6. checks' \in [WatchSlot -> Check] /\ OnePollingLoop'
    BY <1>t, <2>2, <2>4, <2>5, LoopBegins
  <2> QED
    BY <1>1, <1>t, <2>5, <2>6, WatchActCounts DEF ChangeFolder, WatcherInv, WatcherTypeOK
<1>2. CASE LeavePage
  <2>1. \A c \in WatchSlot : /\ [checks[c] EXCEPT !.use = "gone"] \in Check
                             /\ [checks[c] EXCEPT !.use = "gone"].use # "live"
    BY <1>t DEF Check
  <2>2. Idle \in Check /\ Idle.use # "live"
    BY WatchStartValues
  <2>3. /\ checks' \in [WatchSlot -> Check]
        /\ \A c \in WatchSlot : checks'[c].use # "live"
    BY <1>2, <2>1, <2>2 DEF LeavePage
  <2>4. watch' \in Watch /\ ~watch'.mounted /\ ~watch'.timer
    BY <1>2, <1>t DEF LeavePage, Watch
  <2>5. Live' = {}
    BY <2>3 DEF Live
  <2>6. OnePollingLoop'
    BY <2>4, <2>5 DEF OnePollingLoop
  <2> QED
    BY <1>2, <1>t, <2>3, <2>4, <2>6, WatchActCounts DEF LeavePage, WatcherInv, WatcherTypeOK
<1>3. CASE ReturnToPage
  <2>1. PICK s \in FreeCheck({}) : \E r \in FreeCheck({s}) :
            checks' = Started(s, r, checks, watch.submitted)
    BY <1>3 DEF ReturnToPage
  <2>2. PICK r \in FreeCheck({s}) : checks' = Started(s, r, checks, watch.submitted)
    BY <2>1
  <2>3. \A c \in WatchSlot : checks[c].use # "live"
    BY <1>3 DEF ReturnToPage, WatcherInv, OnePollingLoop, Live
  <2>4. watch' \in Watch /\ watch'.mounted /\ ~watch'.timer
    BY <1>3, <1>t, WatchStartValues DEF ReturnToPage, FreshWatch
  <2>5. checks' \in [WatchSlot -> Check] /\ OnePollingLoop'
    BY <1>t, <2>2, <2>3, <2>4, LoopBegins
  <2> QED
    BY <1>3, <1>t, <2>4, <2>5 DEF ReturnToPage, WatcherInv, WatcherTypeOK
<1> QED
  BY <1>1, <1>2, <1>3

\* The timer of the loop becomes its check; the notice is taken down.
LEMMA TimerSteps ==
    ASSUME WatcherInv, Poll \/ DismissToast
    PROVE  WatcherInv'
<1>t. /\ watch \in Watch /\ checks \in [WatchSlot -> Check] /\ status \in [Task -> TaskStatus]
      /\ noticed \subseteq Task
  BY DEF WatcherInv, WatcherTypeOK
<1>1. CASE Poll
  <2>1. PICK s \in FreeCheck({}) : checks' = [checks EXCEPT ![s] = NewCheck("live")]
    BY <1>1 DEF Poll
  <2>2. s \in WatchSlot
    BY <2>1 DEF FreeCheck
  <2>3. NewCheck("live") \in Check /\ NewCheck("live").use = "live"
    BY WatchStartValues
  <2>4. watch.mounted /\ \A c \in WatchSlot : checks[c].use # "live"
    BY <1>1 DEF Poll, WatcherInv, OnePollingLoop, Live
  <2>5. /\ checks' \in [WatchSlot -> Check]
        /\ \A c \in WatchSlot : checks'[c].use = "live" <=> c = s
    BY <1>t, <2>1, <2>2, <2>3, <2>4
  <2>6. watch' \in Watch /\ watch'.mounted /\ ~watch'.timer
    BY <1>1, <1>t, <2>4 DEF Poll, Watch
  <2>7. OnePollingLoop'
    BY <2>2, <2>5, <2>6, LoopOut
  <2> QED
    BY <1>1, <2>5, <2>6, <2>7 DEF Poll, WatcherInv, WatcherTypeOK
<1>2. CASE DismissToast
  <2>1. watch' \in Watch /\ watch'.mounted = watch.mounted /\ watch'.timer = watch.timer
    BY <1>2, <1>t DEF DismissToast, Watch
  <2>2. OnePollingLoop'
    BY <1>2, <2>1, LoopKept DEF DismissToast, WatcherInv
  <2> QED
    BY <1>2, <2>1, <2>2 DEF DismissToast, WatcherInv, WatcherTypeOK
<1> QED
  BY <1>1, <1>2

(***************************************************************************)
(* checkTaskStatus                                                         *)
(***************************************************************************)

\* A check goes on: whose it is stays.
LEMMA CheckGoesOn ==
    ASSUME WatcherInv, NEW s \in WatchSlot, NEW state \in {"ok", "error", "files"},
           NEW list \in [Task -> TaskStatus],
           checks' = [checks EXCEPT ![s] = [@ EXCEPT !.state = state, !.list = list]]
    PROVE  /\ checks' \in [WatchSlot -> Check]
           /\ \A c \in WatchSlot : checks'[c].use = "live" <=> checks[c].use = "live"
<1>1. checks \in [WatchSlot -> Check]
  BY DEF WatcherInv, WatcherTypeOK
<1> DEFINE check == [checks[s] EXCEPT !.state = state, !.list = list]
<1>2. check \in Check /\ check.use = checks[s].use
  BY <1>1 DEF Check
<1>3. checks' = [checks EXCEPT ![s] = check]
  BY <1>1
<1> HIDE DEF check
<1> QED
  BY <1>1, <1>2, <1>3

\* The server answers a check, or fails it.
LEMMA ServingSteps ==
    ASSUME WatcherInv, NEW s \in WatchSlot, ServeTasks(s) \/ FailTasks(s)
    PROVE  WatcherInv'
<1>t. checks[s] \in Check /\ checks \in [WatchSlot -> Check]
  BY DEF WatcherInv, WatcherTypeOK
<1>1. UNCHANGED <<status, watch, noticed, watchActs>>
  BY DEF ServeTasks, FailTasks
<1>2. NewestTasks \in [Task -> TaskStatus] /\ checks[s].list \in [Task -> TaskStatus]
  BY <1>t, WatchLists DEF WatcherInv, Check
<1>3. [checks[s] EXCEPT !.state = "error"]
      = [checks[s] EXCEPT !.state = "error", !.list = checks[s].list]
  BY <1>t DEF Check
<1>4. \/ checks' = [checks EXCEPT ![s] = [@ EXCEPT !.state = "ok", !.list = NewestTasks]]
      \/ checks' = [checks EXCEPT ![s] = [@ EXCEPT !.state = "error", !.list = checks[s].list]]
  BY <1>3 DEF ServeTasks, FailTasks
<1>5. /\ checks' \in [WatchSlot -> Check]
      /\ \A c \in WatchSlot : checks'[c].use = "live" <=> checks[c].use = "live"
  BY <1>2, <1>4, CheckGoesOn
<1>6. OnePollingLoop'
  BY <1>1, <1>5, LoopKept DEF WatcherInv
<1> QED
  BY <1>1, <1>5, <1>6 DEF WatcherInv, WatcherTypeOK

\* A check ends: the timer is set if it was the loop's, and if it still is.
LEMMA Finishing ==
    ASSUME WatcherInv, NEW s \in WatchSlot, NEW w \in Watch, Finish(s, w),
           w.mounted = watch.mounted, w.timer = watch.timer,
           UNCHANGED <<status, noticed, watchActs>>
    PROVE  WatcherInv'
<1>t. checks \in [WatchSlot -> Check] /\ watch \in Watch
  BY DEF WatcherInv, WatcherTypeOK
<1>1. Idle \in Check /\ Idle.use = "idle"
  BY WatchStartValues
<1>2. /\ checks' \in [WatchSlot -> Check]
      /\ \A c \in WatchSlot : checks'[c].use = "live" <=> checks[c].use = "live" /\ c # s
  BY <1>t, <1>1 DEF Finish
<1>3. (w.timer \/ SetsTimer(checks[s].use)) \in BOOLEAN
  OBVIOUS
<1>4. /\ watch' \in Watch /\ watch'.mounted = watch.mounted
      /\ watch'.timer <=> watch.timer \/ checks[s].use = "live"
  BY <1>t, <1>3 DEF Finish, SetsTimer, Watch
<1>5. watch'.timer \in BOOLEAN /\ watch.timer \in BOOLEAN
  BY <1>t, <1>4 DEF Watch
<1>6. Live' = Live \ {s} /\ (s \in Live <=> checks[s].use = "live")
  BY <1>2 DEF Live
<1>7. OnePollingLoop'
  BY <1>4, <1>5, <1>6 DEF WatcherInv, OnePollingLoop
<1> QED
  BY <1>2, <1>4, <1>7 DEF WatcherInv, WatcherTypeOK

\* A check goes on with its answer.
LEMMA HandlerSteps ==
    ASSUME WatcherInv, NEW s \in WatchSlot, TasksBack(s) \/ TasksFailed(s) \/ FilesBack(s)
    PROVE  WatcherInv'
<1>t. /\ watch \in Watch /\ checks \in [WatchSlot -> Check] /\ checks[s] \in Check
      /\ noticed \subseteq Task
  BY DEF WatcherInv, WatcherTypeOK
<1>1. CASE TasksFailed(s) \/ FilesBack(s)
  BY <1>1, <1>t, Finishing DEF TasksFailed, FilesBack
<1>2. CASE TasksBack(s)
  <2> DEFINE ended == Completed(checks[s].list, watch.known)
             w == [watch EXCEPT !.known = Active(checks[s].list)]
  <2>1. /\ \/ /\ \E t \in ended : watch' = [w EXCEPT !.toast = t]
              /\ checks' = [checks EXCEPT ![s] = [@ EXCEPT !.state = "files"]]
              /\ noticed' = noticed \union ended
           \/ Finish(s, w) /\ UNCHANGED noticed
        /\ UNCHANGED <<status, watchActs>>
    BY <1>2 DEF TasksBack
  <2>2. ended \subseteq Task
    BY DEF Completed, Complete
  <2>3. Active(checks[s].list) \subseteq Task
    BY DEF Active
  <2>4. w \in Watch /\ w.mounted = watch.mounted /\ w.timer = watch.timer
    BY <1>t, <2>3 DEF Watch
  <2> HIDE DEF ended, w
  <2>5. CASE Finish(s, w) /\ UNCHANGED noticed
    BY <2>1, <2>4, <2>5, Finishing
  <2>6. ASSUME NEW t \in ended, watch' = [w EXCEPT !.toast = t],
               checks' = [checks EXCEPT ![s] = [@ EXCEPT !.state = "files"]],
               noticed' = noticed \union ended
        PROVE  WatcherInv'
    <3>1. /\ watch' \in Watch
          /\ watch'.mounted = watch.mounted /\ watch'.timer = watch.timer
      BY <2>2, <2>4, <2>6 DEF Watch
    <3>2. /\ checks[s].list \in [Task -> TaskStatus]
          /\ [checks[s] EXCEPT !.state = "files"]
             = [checks[s] EXCEPT !.state = "files", !.list = checks[s].list]
      BY <1>t DEF Check
    <3>3. checks' = [checks EXCEPT ![s] = [@ EXCEPT !.state = "files", !.list = checks[s].list]]
      BY <2>6, <3>2
    <3>4. /\ checks' \in [WatchSlot -> Check]
          /\ \A c \in WatchSlot : checks'[c].use = "live" <=> checks[c].use = "live"
      BY <3>2, <3>3, CheckGoesOn
    <3>5. OnePollingLoop'
      BY <3>1, <3>4, LoopKept DEF WatcherInv
    <3> QED
      BY <1>t, <2>1, <2>2, <2>6, <3>1, <3>4, <3>5 DEF WatcherInv, WatcherTypeOK
  <2> QED
    BY <2>1, <2>5, <2>6
<1> QED
  BY <1>1, <1>2

(***************************************************************************)
(* The theorems                                                            *)
(***************************************************************************)

\* At the start the page has just set up its loop.
LEMMA WatcherStart == WatcherInit => WatcherInv
<1> SUFFICES ASSUME WatcherInit
             PROVE  WatcherInv
  OBVIOUS
<1>1. 1 \in WatchSlot
  BY WatcherAssumption DEF WatchSlot
<1>2. /\ NewCheck("live") \in Check /\ NewCheck("live").use = "live"
      /\ Idle \in Check /\ Idle.use = "idle"
  BY WatchStartValues
<1>3. /\ checks \in [WatchSlot -> Check]
      /\ \A c \in WatchSlot : checks[c].use = "live" <=> c = 1
  BY <1>2 DEF WatcherInit
<1>4. Live = {1}
  BY <1>1, <1>3 DEF Live
<1>5. watch \in Watch /\ watch.mounted /\ ~watch.timer
  BY WatchStartValues DEF WatcherInit, FreshWatch
<1>6. status \in [Task -> TaskStatus] /\ noticed \subseteq Task /\ watchActs \in 0 .. MaxWatchActs
  BY WatchStartValues, WatcherAssumption DEF WatcherInit
<1> QED
  BY <1>3, <1>4, <1>5, <1>6 DEF WatcherInv, WatcherTypeOK, OnePollingLoop

\* WatcherInv is inductive.
LEMMA WatcherStep == WatcherInv /\ [WatcherNext]_watcherVars => WatcherInv'
<1> SUFFICES ASSUME WatcherInv, [WatcherNext]_watcherVars
             PROVE  WatcherInv'
  OBVIOUS
<1>1. CASE UNCHANGED watcherVars
  BY <1>1 DEF watcherVars, WatcherInv, WatcherTypeOK, OnePollingLoop, Live
<1>2. CASE WatcherNext
  BY <1>2, ServerSteps, SubmitStep, NavigationSteps, TimerSteps, ServingSteps, HandlerSteps
     DEF WatcherNext, CheckStep
<1> QED
  BY <1>1, <1>2

\* Every variable of the watcher stays in its domain.
THEOREM WatcherTypeCorrect == WatcherSpec => []WatcherTypeOK
<1>1. WatcherInv => WatcherTypeOK
  BY DEF WatcherInv
<1> QED
  BY <1>1, WatcherStart, WatcherStep, PTL DEF WatcherSpec

\* However effects are cleaned up and run again, a mounted page has one
\* polling loop, and a page that is gone has none.
THEOREM OnePollingLoopHolds == WatcherSpec => []OnePollingLoop
<1>1. WatcherInv => OnePollingLoop
  BY DEF WatcherInv
<1> QED
  BY <1>1, WatcherStart, WatcherStep, PTL DEF WatcherSpec

-----------------------------------------------------------------------------
(***************************************************************************)
(* The overview tab: its hooks and its calls.                              *)
(***************************************************************************)

\* What the tab and a call start from.
LEMMA OverviewStartValues ==
    /\ NoRows \in Rows /\ "ALL" \in Filter
    /\ FreshOverview \in OverviewState
    /\ NoOverviewCall \in OverviewCall
    /\ \A kind \in {"load", "poll", "cancel", "retry", "delete"}, filter \in Filter,
          t \in 0 .. MaxRows : OverviewAsk(kind, filter, t) \in OverviewCall
<1>1. NoRows \in Rows /\ "ALL" \in Filter /\ 0 \in 0 .. MaxRows
  BY OverviewAssumption DEF NoRows, Rows, RowStatus
<1>2. FreshOverview \in OverviewState
  BY <1>1 DEF FreshOverview, OverviewState
<1>3. NoOverviewCall \in OverviewCall
  BY <1>1 DEF NoOverviewCall, OverviewCall, CallState
<1>4. \A kind \in {"load", "poll", "cancel", "retry", "delete"}, filter \in Filter,
         t \in 0 .. MaxRows : OverviewAsk(kind, filter, t) \in OverviewCall
  BY <1>3 DEF OverviewAsk, OverviewCall
<1> QED
  BY <1>1, <1>2, <1>3, <1>4

\* Acts are counted up to their bound.
LEMMA OverviewActCounts ==
    ASSUME OverviewTypeOK, OverviewAct
    PROVE  overviewActs' \in 0 .. MaxOverviewActs
  BY OverviewAssumption DEF OverviewTypeOK, OverviewAct

\* Sending a call keeps the calls well-formed.
LEMMA OverviewSending ==
    ASSUME OverviewTypeOK, NEW call \in OverviewCall, SendOverviewCall(call)
    PROVE  overviewCalls' \in [Slot -> OverviewCall]
  BY DEF OverviewTypeOK, SendOverviewCall, Free

\* The effect loads the tasks of the chosen status.
LEMMA OverviewShown ==
    ASSUME OverviewTypeOK, NEW p \in OverviewState, ShowOverview(p)
    PROVE  overview' \in OverviewState /\ overviewCalls' \in [Slot -> OverviewCall]
<1>1. p.filter \in Filter /\ 0 \in 0 .. MaxRows
  BY OverviewAssumption DEF OverviewState
<1>2. OverviewAsk("load", p.filter, 0) \in OverviewCall
  BY <1>1, OverviewStartValues
<1>3. [p EXCEPT !.loading = TRUE] \in OverviewState
  BY DEF OverviewState
<1> QED
  BY <1>2, <1>3, OverviewSending DEF ShowOverview

\* The user and the interval.
LEMMA OverviewActsTyped ==
    ASSUME OverviewTypeOK,
           \/ \E filter \in Filter : ChooseFilter(filter) \/ CleanupLoads(filter)
           \/ RefreshOverview \/ PollOverview
           \/ \E kind \in {"cancel", "retry", "delete"}, t \in TaskRow : OverviewButton(kind, t)
           \/ LeaveOverview \/ ReturnToOverview \/ LeaveSettings \/ ReturnToSettings
           \/ \E t \in TaskRow : RowEnds(t)
    PROVE  OverviewTypeOK'
<1>t. /\ taskRows \in Rows /\ overview \in OverviewState /\ overview.filter \in Filter
      /\ overviewCalls \in [Slot -> OverviewCall]
      /\ overviewActs \in 0 .. MaxOverviewActs
      /\ TaskRow \subseteq 0 .. MaxRows /\ 0 \in 0 .. MaxRows
  BY OverviewAssumption DEF OverviewTypeOK, OverviewState, TaskRow
<1>1. ASSUME NEW filter \in Filter, ChooseFilter(filter) PROVE OverviewTypeOK'
  <2>1. [overview EXCEPT !.filter = filter] \in OverviewState
    BY <1>t DEF OverviewState
  <2> QED
    BY <1>1, <1>t, <2>1, OverviewShown, OverviewActCounts DEF ChooseFilter, OverviewTypeOK
<1>2. ASSUME NEW filter \in Filter, CleanupLoads(filter) PROVE OverviewTypeOK'
  <2>1. OverviewAsk("load", filter, 0) \in OverviewCall
    BY <1>t, OverviewStartValues
  <2>2. overviewCalls' \in [Slot -> OverviewCall]
    BY <1>2, <2>1, OverviewSending DEF CleanupLoads
  <2>3. overview' \in OverviewState
    BY <1>2, <1>t DEF CleanupLoads, OverviewState
  <2> QED
    BY <1>2, <1>t, <2>2, <2>3, OverviewActCounts DEF CleanupLoads, OverviewTypeOK
<1>3. CASE RefreshOverview
  BY <1>3, <1>t, OverviewShown, OverviewActCounts DEF RefreshOverview, OverviewTypeOK
<1>4. CASE PollOverview
  <2>1. OverviewAsk("poll", PollFilter, 0) \in OverviewCall
    BY <1>t, OverviewStartValues DEF PollFilter
  <2> QED
    BY <1>4, <1>t, <2>1, OverviewSending DEF PollOverview, OverviewTypeOK
<1>5. ASSUME NEW kind \in {"cancel", "retry", "delete"}, NEW t \in TaskRow,
             OverviewButton(kind, t)
      PROVE  OverviewTypeOK'
  <2>1. OverviewAsk(kind, overview.filter, t) \in OverviewCall
    BY <1>t, OverviewStartValues
  <2>2. OverviewAct /\ SendOverviewCall(OverviewAsk(kind, overview.filter, t))
        /\ UNCHANGED <<taskRows, overview>>
    BY <1>5 DEF OverviewButton
  <2> QED
    BY <2>2, <1>t, <2>1, OverviewSending, OverviewActCounts DEF OverviewTypeOK
<1>6. CASE LeaveOverview
  <2>1. overview' \in OverviewState
    BY <1>6, <1>t DEF LeaveOverview, OverviewState
  <2> QED
    BY <1>6, <1>t, <2>1, OverviewActCounts DEF LeaveOverview, OverviewTypeOK
<1>7. CASE ReturnToOverview
  <2>1. [overview EXCEPT !.active = TRUE] \in OverviewState
    BY <1>t DEF OverviewState
  <2> QED
    BY <1>7, <1>t, <2>1, OverviewShown DEF ReturnToOverview, OverviewTypeOK
<1>8. CASE LeaveSettings
  <2>1. overview' \in OverviewState
    BY <1>8, OverviewStartValues DEF LeaveSettings, OverviewState
  <2>2. \A s \in Slot : [overviewCalls[s] EXCEPT !.mine = FALSE] \in OverviewCall
    BY <1>t DEF OverviewCall
  <2>3. overviewCalls' \in [Slot -> OverviewCall]
    BY <1>8, <2>2 DEF LeaveSettings, Orphaned
  <2> QED
    BY <1>8, <1>t, <2>1, <2>3, OverviewActCounts DEF LeaveSettings, OverviewTypeOK
<1>9. CASE ReturnToSettings
  BY <1>9, <1>t, OverviewStartValues, OverviewShown DEF ReturnToSettings, OverviewTypeOK
<1>10. ASSUME NEW t \in TaskRow, RowEnds(t) PROVE OverviewTypeOK'
  <2>1. taskRows' \in Rows
    BY <1>10, <1>t DEF RowEnds, Rows, RowStatus
  <2> QED
    BY <1>10, <1>t, <2>1, OverviewActCounts DEF RowEnds, OverviewTypeOK
<1> QED
  BY <1>1, <1>2, <1>3, <1>4, <1>5, <1>6, <1>7, <1>8, <1>9, <1>10

\* The server.
LEMMA OverviewServerTyped ==
    ASSUME OverviewTypeOK, NEW s \in Slot,
           ServeRows(s) \/ RefuseRows(s) \/ ServeRowUpdate(s) \/ ServeRetry(s)
    PROVE  OverviewTypeOK'
<1>t. /\ taskRows \in Rows /\ NoRows \in Rows
      /\ overviewCalls \in [Slot -> OverviewCall] /\ overviewCalls[s] \in OverviewCall
  BY OverviewStartValues DEF OverviewTypeOK
<1>1. ASSUME NEW state \in CallState, NEW list \in Rows, OverviewServed(s, state, list)
      PROVE  overviewCalls' \in [Slot -> OverviewCall]
  <2>1. [overviewCalls[s] EXCEPT !.state = state, !.list = list] \in OverviewCall
    BY <1>t DEF OverviewCall
  <2> QED
    BY <1>1, <1>t, <2>1 DEF OverviewServed
<1>2. \A filter : Matching(filter) \in Rows
  BY <1>t DEF Matching, Rows, RowStatus
<1>3. CASE ServeRows(s)
  BY <1>3, <1>1, <1>2 DEF ServeRows, CallState, OverviewTypeOK
<1>4. CASE RefuseRows(s)
  BY <1>4, <1>1, <1>t DEF RefuseRows, CallState, OverviewTypeOK
<1>5. CASE ServeRowUpdate(s)
  <2>1. /\ \E state \in {"ok", "error"} : OverviewServed(s, state, NoRows)
        /\ taskRows' \in Rows
        /\ UNCHANGED <<overview, overviewActs>>
    BY <1>5, <1>t DEF ServeRowUpdate, Rows, RowStatus
  <2> QED
    BY <2>1, <1>1, <1>t DEF CallState, OverviewTypeOK
<1>6. CASE ServeRetry(s)
  <2>1. /\ \E state \in {"ok", "error"} : OverviewServed(s, state, NoRows)
        /\ taskRows' \in Rows
        /\ UNCHANGED <<overview, overviewActs>>
    BY <1>6, <1>t DEF ServeRetry, Rows, RowStatus
  <2> QED
    BY <2>1, <1>1, <1>t DEF CallState, OverviewTypeOK
<1> QED
  BY <1>3, <1>4, <1>5, <1>6

\* The handlers that go on when an answer is there.
LEMMA OverviewHandlersTyped ==
    ASSUME OverviewTypeOK, NEW s \in Slot,
           OverviewLoaded(s) \/ OverviewPolled(s) \/ RowUpdated(s) \/ RowDeleted(s)
    PROVE  OverviewTypeOK'
<1>t. /\ overview \in OverviewState /\ overview.tasks \in Rows /\ NoRows \in Rows
      /\ overviewCalls \in [Slot -> OverviewCall] /\ overviewCalls[s] \in OverviewCall
      /\ overviewCalls[s].list \in Rows /\ overviewCalls[s].filter \in Filter
      /\ overviewCalls[s].mine \in BOOLEAN /\ 0 \in 0 .. MaxRows
  <2>1. /\ overview \in OverviewState /\ NoRows \in Rows
        /\ overviewCalls \in [Slot -> OverviewCall] /\ overviewCalls[s] \in OverviewCall
    BY OverviewStartValues DEF OverviewTypeOK
  <2>2. overview.tasks \in Rows
    BY <2>1 DEF OverviewState
  <2>3. /\ overviewCalls[s].list \in Rows /\ overviewCalls[s].filter \in Filter
        /\ overviewCalls[s].mine \in BOOLEAN
    BY <2>1 DEF OverviewCall
  <2> QED
    BY <2>1, <2>2, <2>3, OverviewAssumption
<1>1. ASSUME NEW p \in OverviewState, EndOverviewCall(s, p) PROVE OverviewTypeOK'
  <2>1. overviewCalls' \in [Slot -> OverviewCall]
    BY <1>1, <1>t, OverviewStartValues DEF EndOverviewCall
  <2> QED
    BY <1>1, <2>1 DEF EndOverviewCall, OverviewTypeOK
<1>2. \A p \in OverviewState : WithRows(s, p) \in OverviewState
  BY <1>t DEF WithRows, OverviewState
<1>3. CASE OverviewLoaded(s)
  <2>1. [overview EXCEPT !.loading = FALSE] \in OverviewState
    BY <1>t DEF OverviewState
  <2> QED
    BY <1>3, <2>1, <1>1, <1>2 DEF OverviewLoaded
<1>4. CASE OverviewPolled(s)
  BY <1>4, <1>1, <1>2, <1>t DEF OverviewPolled
<1>5. CASE RowUpdated(s)
  <2>1. OverviewAsk("load", overviewCalls[s].filter, 0) \in OverviewCall
    BY <1>t, OverviewStartValues
  <2>2. [OverviewAsk("load", overviewCalls[s].filter, 0)
           EXCEPT !.mine = overviewCalls[s].mine] \in OverviewCall
    BY <2>1, <1>t DEF OverviewCall
  <2>3. CASE Succeeded(overviewCalls, s)
    <3>1. overviewCalls' \in [Slot -> OverviewCall]
      BY <1>5, <2>2, <2>3, <1>t DEF RowUpdated
    <3>2. overview' \in OverviewState
      BY <1>5, <2>3, <1>t DEF RowUpdated, OverviewState
    <3> QED
      BY <1>5, <2>3, <3>1, <3>2 DEF RowUpdated, OverviewTypeOK
  <2>4. CASE ~ Succeeded(overviewCalls, s)
    BY <1>5, <2>4, <1>1, <1>t DEF RowUpdated
  <2> QED
    BY <2>3, <2>4
<1>6. CASE RowDeleted(s)
  <2>1. [overview.tasks EXCEPT ![overviewCalls[s].row] = "UNBORN"] \in Rows
    BY <1>t DEF Rows, RowStatus
  <2>2. [overview EXCEPT !.tasks = [@ EXCEPT ![overviewCalls[s].row] = "UNBORN"]]
          \in OverviewState
    BY <2>1, <1>t DEF OverviewState
  <2> QED
    BY <1>6, <2>2, <1>1, <1>t DEF RowDeleted
<1> QED
  BY <1>3, <1>4, <1>5, <1>6

\* Every variable of the overview tab stays in its domain, for any rows,
\* choices of the menu and number of calls.
THEOREM OverviewTypeCorrect == OverviewSpec => []OverviewTypeOK
<1>1. OverviewInit => OverviewTypeOK
  <2> SUFFICES ASSUME OverviewInit PROVE OverviewTypeOK
    OBVIOUS
  <2>1. OverviewAsk("load", "ALL", 0) \in OverviewCall
    BY OverviewStartValues, OverviewAssumption
  <2>2. overviewCalls \in [Slot -> OverviewCall]
    BY <2>1, OverviewStartValues DEF OverviewInit
  <2>3. taskRows \in Rows /\ overviewActs \in 0 .. MaxOverviewActs
    BY OverviewAssumption DEF OverviewInit, Rows, TaskRow
  <2> QED
    BY <2>2, <2>3, OverviewStartValues DEF OverviewInit, OverviewTypeOK
<1>2. OverviewTypeOK /\ [OverviewNext]_overviewVars => OverviewTypeOK'
  <2> SUFFICES ASSUME OverviewTypeOK, [OverviewNext]_overviewVars PROVE OverviewTypeOK'
    OBVIOUS
  <2>1. CASE UNCHANGED overviewVars
    BY <2>1 DEF overviewVars, OverviewTypeOK
  <2>2. CASE OverviewNext
    BY <2>2, OverviewActsTyped, OverviewServerTyped, OverviewHandlersTyped
       DEF OverviewNext, OverviewCallStep
  <2> QED
    BY <2>1, <2>2
<1> QED
  BY <1>1, <1>2, PTL DEF OverviewSpec

-----------------------------------------------------------------------------
(***************************************************************************)
(* The two pollers together: the one that is open acts, the other stutters.*)
(***************************************************************************)

\* What the run of PollingParts checks of the watcher is what is proved of it:
\* in the composition a mounted page of the file browser has one polling loop,
\* a page that is gone has none, and both parts keep their types.
THEOREM PollersKeepTheirPromises ==
    PollersSpec => [](OnePollingLoop /\ WatcherTypeOK /\ OverviewTypeOK)
<1>1. PollersInit => OverviewInit /\ WatcherInit
  BY DEF PollersInit
<1>2. [PollersNext]_pollersVars => [OverviewNext]_overviewVars /\ [WatcherNext]_watcherVars
  BY DEF PollersNext, pollersVars, OfOverview, OfWatcher
<1>3. PollersSpec => OverviewSpec /\ WatcherSpec
  BY <1>1, <1>2, PTL DEF PollersSpec, OverviewSpec, WatcherSpec
<1> QED
  BY <1>3, OverviewTypeCorrect, WatcherTypeCorrect, OnePollingLoopHolds, PTL
=============================================================================
