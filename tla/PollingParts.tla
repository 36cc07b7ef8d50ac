---------------------------- MODULE PollingParts ----------------------------
(***************************************************************************)
(* The two parts of the web front end that ask the server for tasks again  *)
(* and again, in one specification: the watcher of the file browser and    *)
(* the overview tab.  They share nothing and are never shown together, so  *)
(* that a behaviour here is one of one of them, chosen at the start.       *)
(***************************************************************************)
EXTENDS OverviewTab, TaskWatcher

VARIABLE poller     \* the part that is open

pollersVars == <<poller, overviewVars, watcherVars>>

Poller == {"overview", "watcher"}

PollersInit ==
    /\ poller \in Poller
    /\ OverviewInit /\ WatcherInit
    /\ poller = "overview" \/ taskRows = CHOOSE r \in StartRows : TRUE

OfOverview(step) == poller = "overview" /\ step /\ UNCHANGED <<poller, watcherVars>>

OfWatcher(step) == poller = "watcher" /\ step /\ UNCHANGED <<poller, overviewVars>>

PollersNext == OfOverview(OverviewNext) \/ OfWatcher(WatcherNext)

\* OverviewFairness or WatcherFairness, whichever part is open.
Ticks == OfOverview(PollOverview) \/ OfWatcher(Poll)

CallStep(s) ==
    \/ s \in Slot /\ OfOverview(OverviewCallStep(s))
    \/ s \in WatchSlot /\ OfWatcher(CheckStep(s))

Serves(s) ==
    \/ s \in Slot /\ OfOverview(ServeRows(s))
    \/ s \in WatchSlot /\ OfWatcher(ServeTasks(s))

PollersFairness ==
    /\ WF_pollersVars(Ticks)
    /\ \A s \in Slot \union WatchSlot :
        /\ WF_pollersVars(CallStep(s))
        /\ SF_pollersVars(Serves(s))

PollersSpec == PollersInit /\ [][PollersNext]_pollersVars /\ PollersFairness
=============================================================================
