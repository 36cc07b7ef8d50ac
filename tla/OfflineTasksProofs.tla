------------------------- MODULE OfflineTasksProofs -------------------------
(***************************************************************************)
(* Theorems about OfflineTasks: what a client was told is recorded, what a *)
(* poll or a cleaner writes late is still true, no signal is lost, and a   *)
(* key that was answered creates nothing more.                             *)
(***************************************************************************)
EXTENDS OfflineTasks, TLAPS

(***************************************************************************)
(* The inductive invariant.  The row of a task is created once, by Insert; *)
(* from then on the rows a poll still has to write, and those a cleaner    *)
(* still has to mark, are apart, and each of the two goes by something     *)
(* PikPak does not take back: a final phase, or its answer to the creation.*)
(***************************************************************************)
Ended == {"complete", "error"}

\* A poll has tasks to write only while it goes through its lists.
PollIdle == poll.pc # "list" => poll.todo = {}

\* Before Insert there is no row, no poll and no cleaner for a task, and a
\* request has no key before it looks one up.
Unborn ==
    \A r \in Request :
        /\ req[r].pc \in {"idle", "create", "insert"} => row[r].status = "none"
        /\ req[r].pc = "idle" => req[r].key = NoKey

\* A poll works on tasks that were running when it asked, none of which is
\* still owed to the next one; it was told no phase but one PikPak reports.
Polled ==
    \A r \in poll.todo :
        /\ row[r].status \in {"RUNNING", "CANCELLED", "deleted"}
        /\ poll.seen[r] \in {"unseen", "running", "complete", "error"}
        /\ poll.seen[r] \in Ended => remote[r].phase = poll.seen[r]
        /\ r \notin owed

ToClean(c) == clean[c].todo \cup {clean[c].current}

\* A cleaner works on tasks that were complete when it began, none of which a
\* poll has still to write.
Cleaned ==
    \A c \in Cleaner : \A r \in Request \cap ToClean(c) :
        /\ row[r].status \in {"COMPLETE", "CLEANED", "CANCELLED", "deleted"}
        /\ SaidComplete(r)
        /\ r \notin poll.todo

\* What is recorded: the task of a request that has passed Insert with its
\* client listening, of a stored key, and of an answer.
Recorded ==
    /\ \A r \in Request :
         /\ req[r].pc \in {"wake", "save"} /\ ~ req[r].left => row[r].status # "none"
         /\ req[r].pc = "answered" =>
              /\ req[r].result \in Request
              /\ row[req[r].result].status # "none"
              /\ req[r].key # NoKey => key[req[r].key] # Nothing
    /\ \A k \in Key : key[k] # Nothing => row[key[k]].status # "none"

TaskInv ==
    /\ TypeOK /\ PollIdle /\ Unborn /\ Polled /\ Cleaned /\ Recorded
    /\ StatusMatchesOutcome /\ NoLostWake

(***************************************************************************)
(* Type correctness                                                        *)
(***************************************************************************)

\* The tables, PikPak and the local variables start out well-formed.
LEMMA InitType == Init => TypeOK
<1> SUFFICES ASSUME Init PROVE TypeOK
  OBVIOUS
<1>1. row \in [Request -> Row]
  BY DEF Init, Row, Status
<1>2. req \in [Request -> Req]
  BY DEF Init, Req
<1>3. remote \in [Request -> RemoteTask] /\ wake \in BOOLEAN
  BY DEF Init, RemoteTask
<1>4. poll \in Poll /\ \A r \in Request \ poll.todo : poll.seen[r] = "unseen"
  BY DEF Init, Poll, Asleep
<1>5. clean \in [Cleaner -> [todo : SUBSET Request, current : Request \cup {Nothing}]]
  BY DEF Init, Idle
<1> QED
  BY <1>1, <1>2, <1>3, <1>4, <1>5, TasksAssumption DEF Init, TypeOK

\* Going on with a poll keeps its local variables well-formed, and lists only
\* while there is something to write.
LEMMA PollGoesOn ==
    ASSUME NEW todo \in SUBSET Request,
           NEW seen, \A r \in todo : seen[r] \in Phase \cup {"unseen"},
           GoOn(todo, seen)
    PROVE  /\ poll' \in Poll
           /\ \A r \in Request \ poll'.todo : poll'.seen[r] = "unseen"
           /\ poll'.pc # "list" => poll'.todo = {}
           /\ poll'.todo = todo
           /\ \A r \in todo : poll'.seen[r] = seen[r]
<1>1. CASE todo = {}
  BY <1>1 DEF GoOn, Asleep, Poll, Phase
<1>2. CASE todo # {}
  BY <1>2 DEF GoOn, Poll
<1> QED
  BY <1>1, <1>2

\* The last step of a submission answers it with its own task, unless its
\* client has left.
LEMMA SavingOutcome ==
    ASSUME TypeOK, NEW r \in Request, SaveKey(r)
    PROVE  /\ req' \in [Request -> Req]
           /\ req'[r].pc \in {"lost", "answered"} /\ req'[r].key = req[r].key
           /\ ~ req[r].left => req'[r].result = r
<1>t. req \in [Request -> Req] /\ req[r] \in Req
  BY DEF TypeOK
<1>1. CASE req[r].left
  BY <1>t, <1>1 DEF SaveKey, Step, Req, InFlight
<1>2. CASE ~ req[r].left
  <2>1. req' = [req EXCEPT ![r] = [req[r] EXCEPT !.pc = "answered", !.result = r]]
    BY <1>t, <1>2 DEF SaveKey, Answer
  <2>2. [req[r] EXCEPT !.pc = "answered", !.result = r] \in Req
    BY <1>t DEF Req
  <2> QED
    BY <1>t, <1>2, <2>1, <2>2 DEF Req
<1> QED
  BY <1>1, <1>2

\* What a submission and its client do keeps the types.
LEMMA SubmissionTypes ==
    ASSUME TypeOK, NEW r \in Request, Submission(r)
    PROVE  TypeOK'
<1>1. ASSUME NEW k \in Key \cup {NoKey}, CheckKey(r, k) PROVE TypeOK'
  <2>a. \A v \in Req, t \in Request :
            [v EXCEPT !.pc = "answered", !.key = k, !.result = t] \in Req
    BY DEF Req
  <2>c. \A v \in Req : [v EXCEPT !.pc = "create", !.key = k] \in Req
    BY DEF Req, InFlight
  <2>1. CASE k # NoKey /\ key[k] # Nothing
    <3>1. key[k] \in Request
      BY <2>1 DEF TypeOK
    <3>2. [req[r] EXCEPT !.pc = "answered", !.key = k, !.result = key[k]] \in Req
      BY <2>a, <3>1 DEF TypeOK
    <3>3. req' \in [Request -> Req]
      BY <1>1, <2>1, <3>2 DEF CheckKey, TypeOK
    <3> QED
      BY <1>1, <3>3 DEF CheckKey, TypeOK
  <2>2. CASE ~ (k # NoKey /\ key[k] # Nothing)
    <3>1. [req[r] EXCEPT !.pc = "create", !.key = k] \in Req
      BY <2>c DEF TypeOK
    <3>2. req' \in [Request -> Req]
      BY <1>1, <2>2, <3>1 DEF CheckKey, TypeOK
    <3> QED
      BY <1>1, <3>2 DEF CheckKey, TypeOK
  <2> QED
    BY <2>1, <2>2
<1>2. CASE RetryTask(r)
  BY <1>2 DEF RetryTask, Event, Step, TypeOK, Req, InFlight
<1>3. ASSUME NEW a \in Account, NEW phase \in Phase, NEW full \in BOOLEAN,
             Create(r, a, phase, full)
      PROVE  TypeOK'
  <2>1. [phase |-> phase, listed |-> TRUE, file |-> phase = "complete"] \in RemoteTask
    BY DEF RemoteTask, Phase
  <2>2. remote' \in [Request -> RemoteTask]
    BY <1>3, <2>1 DEF Create, TypeOK
  <2>3. \A v \in Req, i \in BOOLEAN : [v EXCEPT !.pc = "insert", !.instant = i] \in Req
    BY DEF Req, InFlight
  <2>4. [req[r] EXCEPT !.pc = "insert", !.instant = (phase = "complete" \/ full)] \in Req
    BY <2>3 DEF TypeOK
  <2>5. req' \in [Request -> Req]
    BY <1>3, <2>4 DEF Create, TypeOK
  <2> QED
    BY <1>3, <2>2, <2>5 DEF Create, TypeOK
<1>4. CASE CreateFails(r)
  BY <1>4, ZenonT(60) DEF CreateFails, Step, TypeOK, Req, InFlight
<1>5. CASE Insert(r)
  <2>1. req' \in [Request -> Req]
    BY <1>5 DEF Insert, Step, TypeOK, Req, InFlight
  <2>2. /\ [status |-> "COMPLETE", doneAt |-> "recent"] \in Row
        /\ [status |-> "RUNNING", doneAt |-> "null"] \in Row
    BY DEF Row, Status, Stored
  <2>3. row' \in [Request -> Row]
    BY <1>5, <2>2 DEF Insert, TypeOK
  <2>4. owed' \subseteq Request
    BY <1>5 DEF Insert, TypeOK
  <2> QED
    BY <1>5, <2>1, <2>3, <2>4 DEF Insert, TypeOK
<1>6. CASE WakePoller(r)
  BY <1>6 DEF WakePoller, Step, TypeOK, Req, InFlight
<1>7. CASE SaveKey(r)
  BY <1>7, SavingOutcome DEF SaveKey, TypeOK
<1>8. CASE Disconnect(r)
  <2>1. \A v \in Req : [v EXCEPT !.left = TRUE] \in Req
    BY DEF Req
  <2>2. req' \in [Request -> Req]
    BY <1>8, <2>1 DEF Disconnect, TypeOK
  <2> QED
    BY <1>8, <2>2 DEF Disconnect, Event, TypeOK
<1> QED
  BY <1>1, <1>2, <1>3, <1>4, <1>5, <1>6, <1>7, <1>8 DEF Submission

\* A poll writes no status of its own making, and keeps the types.
LEMMA PollingTypes ==
    ASSUME TypeOK, PollIdle, Polled, Polling
    PROVE  TypeOK'
<1>0. /\ poll.todo \subseteq Request
      /\ poll.seen \in [Request -> Phase \cup {"unseen"}]
      /\ poll \in Poll
  BY DEF TypeOK, Poll
<1>1. CASE PollTick
  BY <1>1 DEF PollTick, TypeOK, Poll
<1>2. CASE PollWake
  BY <1>2 DEF PollWake, TypeOK, Poll
<1>3. CASE Query
  <2>1. Active \in SUBSET Request
    BY DEF Active
  <2> QED
    BY <1>0, <1>3, <2>1, PollGoesOn DEF Query, TypeOK
<1>4. ASSUME NEW a \in Account, List(a) PROVE TypeOK'
  <2> DEFINE todo == {r \in poll.todo : r \in Unlisted(a) => Reported(r)}
             seen == [r \in Request |-> IF r \in Unlisted(a) THEN remote[r].phase
                                        ELSE poll.seen[r]]
  <2>1. GoOn(todo, seen)
    BY <1>4 DEF List
  <2>2. todo \in SUBSET Request /\ \A r \in todo : seen[r] \in Phase \cup {"unseen"}
    BY <1>0 DEF Unlisted, Reported, Phase
  <2>3. poll' \in Poll /\ \A r \in Request \ poll'.todo : poll'.seen[r] = "unseen"
    BY <2>1, <2>2, PollGoesOn
  <2> QED
    BY <1>4, <2>3 DEF List, TypeOK
<1>5. ASSUME NEW a \in Account, ListFails(a) PROVE TypeOK'
  <2>1. poll.todo \ Unlisted(a) \in SUBSET Request
    BY <1>0
  <2> QED
    BY <1>0, <1>5, <2>1, PollGoesOn DEF ListFails, TypeOK
<1>6. ASSUME NEW r \in Request, Apply(r) PROVE TypeOK'
  <2>1. poll.todo \ {r} \in SUBSET Request
    BY <1>0
  <2>2. StatusOf(poll.seen[r]) \in {"COMPLETE", "ERROR", "RUNNING"}
    BY <1>6 DEF Apply, Polled, StatusOf
  <2>3. row' \in [Request -> Row]
    BY <1>6, <2>2 DEF Apply, TypeOK, Row, Status, Stored, Present
  <2> QED
    BY <1>0, <1>6, <2>1, <2>3, PollGoesOn DEF Apply, TypeOK
<1> QED
  BY <1>1, <1>2, <1>3, <1>4, <1>5, <1>6 DEF Polling

\* A statement that sets the status of one row keeps the table well-formed.
LEMMA StatusSet ==
    ASSUME TypeOK, NEW r \in Request, NEW status \in Status, SetStatus(r, status)
    PROVE  row' \in [Request -> Row]
  BY ZenonT(60) DEF SetStatus, TypeOK, Row

\* The cleaner keeps the types.
LEMMA CleaningTypes ==
    ASSUME TypeOK, NEW c \in Cleaner, Cleaning(c)
    PROVE  TypeOK'
<1> DEFINE Local == [todo : SUBSET Request, current : Request \cup {Nothing}]
<1>0. clean \in [Cleaner -> Local]
  BY DEF TypeOK
<1>1. CASE StartCleaning(c)
  <2>1. clean' \in [Cleaner -> Local]
    BY <1>0, <1>1 DEF StartCleaning, Expired
  <2> QED
    BY <1>1, <2>1 DEF StartCleaning, TypeOK
<1>2. ASSUME NEW r \in Request, SkipTask(c, r) PROVE TypeOK'
  <2>1. clean' \in [Cleaner -> Local]
    BY <1>0, <1>2 DEF SkipTask
  <2> QED
    BY <1>2, <2>1 DEF SkipTask, TypeOK
<1>3. ASSUME NEW r \in Request, DeleteFile(c, r) PROVE TypeOK'
  <2>1. clean' \in [Cleaner -> Local]
    BY <1>0, <1>3 DEF DeleteFile
  <2>2. PICK deleted \in BOOLEAN :
             remote' = [remote EXCEPT ![r].file = remote[r].file /\ ~ deleted]
    BY <1>3 DEF DeleteFile
  <2>3. \A v \in RemoteTask, f \in BOOLEAN : [v EXCEPT !.file = f] \in RemoteTask
    BY DEF RemoteTask
  <2>5. remote' \in [Request -> RemoteTask]
    BY <2>2, <2>3 DEF TypeOK
  <2> QED
    BY <1>3, <2>1, <2>5 DEF DeleteFile, TypeOK
<1>4. CASE MarkCleaned(c)
  <2>1. clean[c].current \in Request
    BY <1>0, <1>4 DEF MarkCleaned
  <2>2. row' \in [Request -> Row]
    BY <1>4, <2>1, StatusSet DEF MarkCleaned, Status, Stored
  <2>3. clean' \in [Cleaner -> Local]
    BY <1>0, <1>4 DEF MarkCleaned
  <2> QED
    BY <1>4, <2>2, <2>3 DEF MarkCleaned, TypeOK
<1> QED
  BY <1>1, <1>2, <1>3, <1>4 DEF Cleaning

\* Operators and restarts keep the types.
LEMMA OperatingTypes ==
    ASSUME TypeOK, Operating
    PROVE  TypeOK'
<1>1. ASSUME NEW kind \in {"cancel", "delete"}, NEW r \in Request, StartCall(kind, r)
      PROVE  TypeOK'
  <2>1. [kind |-> kind, task |-> r, stage |-> "remote"] \in Call
    BY DEF Call
  <2> QED
    BY <1>1, <2>1 DEF StartCall, Event, TypeOK
<1>2. ASSUME NEW c \in calls, DropRemote(c) PROVE TypeOK'
  <2>1. c \in Call
    BY DEF TypeOK
  <2>2. [c EXCEPT !.stage = "write"] \in Call
    BY <2>1 DEF Call
  <2>3. c.task \in Request
    BY <2>1 DEF Call
  <2>4. PICK dropped \in BOOLEAN :
             remote' = [remote EXCEPT ![c.task].listed = remote[c.task].listed /\ ~ dropped]
    BY <1>2 DEF DropRemote
  <2>5. \A v \in RemoteTask, l \in BOOLEAN : [v EXCEPT !.listed = l] \in RemoteTask
    BY DEF RemoteTask
  <2>6. remote' \in [Request -> RemoteTask]
    BY <2>4, <2>5 DEF TypeOK
  <2> QED
    BY <1>2, <2>2, <2>6 DEF DropRemote, TypeOK
<1>3. ASSUME NEW c \in calls, FinishCall(c) PROVE TypeOK'
  <2>1. c.task \in Request
    BY DEF TypeOK, Call
  <2>2. row' \in [Request -> Row]
    BY <1>3, <2>1, StatusSet DEF FinishCall, Status, Stored
  <2> QED
    BY <1>3, <2>2 DEF FinishCall, TypeOK
<1>4. ASSUME NEW a \in Account, WipeRemote(a) PROVE TypeOK'
  <2>1. \A v \in RemoteTask : [v EXCEPT !.listed = FALSE, !.file = FALSE] \in RemoteTask
    BY DEF RemoteTask
  <2>2. remote' \in [Request -> RemoteTask]
    <3>1. PICK Gone \in SUBSET {r \in Request : home[r] = a} :
             remote' = [r \in Request |->
                 IF r \in Gone THEN [remote[r] EXCEPT !.listed = FALSE, !.file = FALSE]
                 ELSE remote[r]]
      BY <1>4 DEF WipeRemote
    <3> QED
      BY <2>1, <3>1 DEF TypeOK
  <2>e. Event /\ wiping' = wiping \cup {a}
    BY <1>4 DEF WipeRemote
  <2>3. wiping' \subseteq Account /\ events' \in Nat
    BY <2>e DEF Event, TypeOK
  <2>4. UNCHANGED <<row, key, req, home, wake, poll, clean, calls, owed>>
    BY <1>4 DEF WipeRemote
  <2> QED
    BY <2>2, <2>3, <2>4 DEF TypeOK
<1>5. ASSUME NEW a \in Account, WipeRows(a) PROVE TypeOK'
  <2>1. \A v \in Row : [v EXCEPT !.status = "deleted"] \in Row
    BY DEF Row, Status
  <2>2. row' \in [Request -> Row]
    BY <1>5, <2>1 DEF WipeRows, TypeOK
  <2> QED
    BY <1>5, <2>2 DEF WipeRows, TypeOK
<1>6. CASE Restart
  <2>1. \A v \in Req : [v EXCEPT !.pc = "lost"] \in Req
    BY DEF Req
  <2>2. req' \in [Request -> Req]
    BY <1>6, <2>1 DEF Restart, TypeOK
  <2>3. poll' \in Poll /\ \A r \in Request \ poll'.todo : poll'.seen[r] = "unseen"
    BY <1>6 DEF Restart, Asleep, Poll
  <2>4. clean' \in [Cleaner -> [todo : SUBSET Request, current : Request \cup {Nothing}]]
    BY <1>6 DEF Restart, Idle
  <2>e. Event /\ wake' = FALSE /\ calls' = {} /\ wiping' = {} /\ owed' = {}
    BY <1>6 DEF Restart
  <2>5. events' \in Nat
    BY <2>e DEF Event, TypeOK
  <2>6. UNCHANGED <<row, key, home, remote>>
    BY <1>6 DEF Restart
  <2> QED
    BY <2>2, <2>3, <2>4, <2>5, <2>6, <2>e DEF TypeOK
<1> QED
  BY <1>1, <1>2, <1>3, <1>4, <1>5, <1>6 DEF Operating

\* PikPak and the clock keep the types.
LEMMA WorldTypes ==
    ASSUME TypeOK, NEW r \in Request,
           (\E phase \in Phase : Progress(r, phase)) \/ Age(r)
    PROVE  TypeOK'
<1>1. ASSUME NEW phase \in Phase, Progress(r, phase) PROVE TypeOK'
  <2>1. \A v \in RemoteTask, f \in BOOLEAN :
            [v EXCEPT !.phase = phase, !.file = f] \in RemoteTask
    BY DEF RemoteTask
  <2>2. [remote[r] EXCEPT !.phase = phase, !.file = (phase = "complete")] \in RemoteTask
    BY <2>1 DEF TypeOK
  <2>3. remote' \in [Request -> RemoteTask]
    BY <1>1, <2>2 DEF Progress, TypeOK
  <2> QED
    BY <1>1, <2>3 DEF Progress, TypeOK
<1>2. CASE Age(r)
  <2>1. row' \in [Request -> Row]
    BY <1>2 DEF Age, TypeOK, Row
  <2> QED
    BY <1>2, <2>1 DEF Age, TypeOK
<1> QED
  BY <1>1, <1>2

\* Every step keeps the types, given what polls and requests hold.
LEMMA TypeStep == TaskInv /\ [Next]_vars => TypeOK'
<1> SUFFICES ASSUME TaskInv, [Next]_vars PROVE TypeOK'
  OBVIOUS
<1>t. TypeOK /\ PollIdle /\ Polled
  BY DEF TaskInv
<1>1. CASE UNCHANGED vars
  BY <1>t, <1>1 DEF TypeOK, vars
<1>2. CASE Next
  BY <1>t, <1>2, SubmissionTypes, WorldTypes, PollingTypes, CleaningTypes, OperatingTypes
     DEF Next
<1> QED
  BY <1>1, <1>2

(***************************************************************************)
(* What a step may change, one variable at a time                          *)
(***************************************************************************)

\* A step is one of these.
LEMMA NextCases ==
    ASSUME Next
    PROVE  \/ \E r \in Request : \/ Submission(r)
                                 \/ \E phase \in Phase : Progress(r, phase)
                                 \/ Age(r)
           \/ Polling
           \/ \E c \in Cleaner : Cleaning(c)
           \/ Operating
  BY DEF Next

\* Setting the status of a row that is there touches no other status, and
\* none of a row that is not.
LEMMA StatusSetEffect ==
    ASSUME TypeOK, NEW t \in Request, NEW status, SetStatus(t, status), NEW r \in Request
    PROVE  \/ row'[r].status = row[r].status
           \/ r = t /\ Present(r) /\ row'[r].status = status
<1>1. row \in [Request -> Row] /\ row[r] \in Row
  BY DEF TypeOK
<1> QED
  BY <1>1 DEF SetStatus, Row

\* A status changes when the row is stored, when a poll or a cleaner writes
\* it, or when an operator cancels or deletes a row that is there.
LEMMA StatusChanges ==
    ASSUME TypeOK, Next, NEW r \in Request
    PROVE  \/ row'[r].status = row[r].status
           \/ Insert(r)
           \/ Apply(r)
           \/ \E c \in Cleaner : MarkCleaned(c) /\ clean[c].current = r
           \/ Present(r) /\ row'[r].status \in {"CANCELLED", "deleted"}
<1>t. row \in [Request -> Row] /\ row[r] \in Row
  BY DEF TypeOK
<1>1. ASSUME NEW q \in Request, Submission(q)
      PROVE  row'[r].status = row[r].status \/ Insert(r)
  <2>1. CASE Insert(q) /\ q # r
    BY <1>t, <2>1 DEF Insert
  <2>2. CASE row' = row
    BY <2>2
  <2> QED
    BY <1>1, <2>1, <2>2 DEF Submission, CheckKey, RetryTask, Create, CreateFails, WakePoller,
       SaveKey, Disconnect
<1>2. ASSUME NEW q \in Request, (\E phase \in Phase : Progress(q, phase)) \/ Age(q)
      PROVE  row'[r].status = row[r].status
  <2>1. ASSUME NEW phase \in Phase, Progress(q, phase) PROVE row' = row
    BY <2>1 DEF Progress
  <2>2. CASE Age(q)
    BY <1>t, <2>2 DEF Age, Row
  <2> QED
    BY <1>2, <2>1, <2>2
<1>3. CASE Polling
  <2>1. ASSUME NEW q \in Request, q # r, Apply(q) PROVE row'[r].status = row[r].status
    BY <1>t, <2>1 DEF Apply
  <2>2. CASE row' = row
    BY <2>2
  <2> QED
    BY <1>3, <2>1, <2>2 DEF Polling, PollTick, PollWake, Query, List, ListFails
<1>4. ASSUME NEW c \in Cleaner, Cleaning(c)
      PROVE  row'[r].status = row[r].status \/ (MarkCleaned(c) /\ clean[c].current = r)
  <2>1. CASE MarkCleaned(c)
    <3>1. clean[c].current \in Request
      BY <2>1 DEF MarkCleaned, TypeOK
    <3> QED
      BY <2>1, <3>1, StatusSetEffect DEF MarkCleaned
  <2>2. CASE row' = row
    BY <2>2
  <2> QED
    BY <1>4, <2>1, <2>2 DEF Cleaning, StartCleaning, SkipTask, DeleteFile
<1>5. CASE Operating
  <2>1. ASSUME NEW c \in calls, FinishCall(c)
        PROVE  \/ row'[r].status = row[r].status
               \/ Present(r) /\ row'[r].status \in {"CANCELLED", "deleted"}
    <3>1. c.task \in Request
      BY DEF TypeOK, Call
    <3> QED
      BY <2>1, <3>1, StatusSetEffect DEF FinishCall
  <2>2. ASSUME NEW a \in Account, WipeRows(a)
        PROVE  \/ row'[r].status = row[r].status
               \/ Present(r) /\ row'[r].status \in {"CANCELLED", "deleted"}
    BY <1>t, <2>2 DEF WipeRows, Row
  <2>3. CASE row' = row
    BY <2>3
  <2> QED
    BY <1>5, <2>1, <2>2, <2>3 DEF Operating, StartCall, DropRemote, WipeRemote, Restart
<1> QED
  BY <1>1, <1>2, <1>3, <1>4, <1>5, NextCases

\* No step takes a row back to never having been stored.
LEMMA RowsStay ==
    ASSUME TypeOK, Polled, Next, NEW r \in Request, row[r].status # "none"
    PROVE  row'[r].status # "none"
<1>t. row \in [Request -> Row] /\ row[r] \in Row
  BY DEF TypeOK
<1>1. CASE Insert(r)
  BY <1>t, <1>1 DEF Insert
<1>2. CASE Apply(r)
  <2>1. StatusOf(poll.seen[r]) # "none"
    BY <1>2 DEF Apply, Polled, StatusOf
  <2> QED
    BY <1>t, <1>2, <2>1 DEF Apply
<1>3. ASSUME NEW c \in Cleaner, MarkCleaned(c), clean[c].current = r
      PROVE  row'[r].status # "none"
  BY <1>3, StatusSetEffect DEF MarkCleaned
<1> QED
  BY <1>1, <1>2, <1>3, StatusChanges

\* A phase changes when the task is created, or when its download goes on.
LEMMA PhaseChanges ==
    ASSUME TypeOK, Next, NEW r \in Request
    PROVE  \/ remote'[r].phase = remote[r].phase
           \/ req[r].pc = "create"
           \/ remote[r].phase \in {"pending", "running"}
<1>t. remote \in [Request -> RemoteTask] /\ remote[r] \in RemoteTask
  BY DEF TypeOK
<1>0. CASE remote' = remote
  BY <1>0
<1>1. ASSUME NEW q \in Request, NEW a \in Account,
             NEW phase \in Phase, NEW full \in BOOLEAN, Create(q, a, phase, full)
      PROVE  remote'[r].phase = remote[r].phase \/ req[r].pc = "create"
  BY <1>t, <1>1 DEF Create
<1>2. ASSUME NEW q \in Request, NEW phase \in Phase, Progress(q, phase)
      PROVE  remote'[r].phase = remote[r].phase \/ remote[r].phase \in {"pending", "running"}
  BY <1>t, <1>2 DEF Progress
<1>3. ASSUME NEW c \in Cleaner, NEW q \in Request, DeleteFile(c, q)
      PROVE  remote'[r].phase = remote[r].phase
  BY <1>t, <1>3 DEF DeleteFile, RemoteTask
<1>4. ASSUME NEW c \in calls, DropRemote(c)
      PROVE  remote'[r].phase = remote[r].phase
  BY <1>t, <1>4 DEF DropRemote, RemoteTask
<1>5. ASSUME NEW a \in Account, WipeRemote(a)
      PROVE  remote'[r].phase = remote[r].phase
  <2>1. PICK Gone \in SUBSET {q \in Request : home[q] = a} :
           remote' = [q \in Request |->
               IF q \in Gone THEN [remote[q] EXCEPT !.listed = FALSE, !.file = FALSE]
               ELSE remote[q]]
    BY <1>5 DEF WipeRemote
  <2> QED
    BY <1>t, <2>1 DEF RemoteTask
<1>6. ASSUME NEW q \in Request, Submission(q)
      PROVE  remote' = remote \/ \E a \in Account, phase \in Phase, full \in BOOLEAN :
                                   Create(q, a, phase, full)
  BY <1>6 DEF Submission, CheckKey, RetryTask, CreateFails, Insert, WakePoller, SaveKey,
     Disconnect
<1>7. Polling => remote' = remote
  BY DEF Polling, PollTick, PollWake, Query, List, ListFails, Apply
<1>8. ASSUME NEW c \in Cleaner, Cleaning(c)
      PROVE  remote' = remote \/ \E q \in Request : DeleteFile(c, q)
  BY <1>8 DEF Cleaning, StartCleaning, SkipTask, MarkCleaned
<1>9. CASE Operating
  <2>1. \/ remote' = remote
        \/ \E c \in calls : DropRemote(c)
        \/ \E a \in Account : WipeRemote(a)
    BY <1>9 DEF Operating, StartCall, FinishCall, WipeRows, Restart
  <2> QED
    BY <1>0, <1>4, <1>5, <2>1
<1>10. ASSUME NEW q \in Request, Age(q) PROVE remote' = remote
  BY <1>10 DEF Age
<1> QED
  BY <1>0, <1>1, <1>2, <1>3, <1>6, <1>7, <1>8, <1>9, <1>10, NextCases

\* What a poll works on: what it worked on before, told nothing new; a task
\* its query found running; or a task that it has just seen listed.  What it
\* has applied it does not keep.
LEMMA PollChanges ==
    ASSUME TypeOK, PollIdle, Next, NEW r \in poll'.todo
    PROVE  /\ r \in Request
           /\ ~ Apply(r)
           /\ \/ r \in poll.todo /\ poll'.seen[r] = poll.seen[r]
              \/ /\ Query
                 /\ row[r].status = "RUNNING" /\ r \notin owed'
                 /\ poll'.seen[r] = "unseen"
              \/ /\ r \in poll.todo /\ UNCHANGED remote
                 /\ poll'.seen[r] = remote[r].phase
                 /\ poll'.seen[r] \in {"running", "complete", "error"}
<1>0. /\ poll \in Poll
      /\ poll.todo \subseteq Request
      /\ poll.seen \in [Request -> Phase \cup {"unseen"}]
      /\ \A q \in Request \ poll.todo : poll.seen[q] = "unseen"
  BY DEF TypeOK, Poll
<1>s. ASSUME NEW todo \in SUBSET Request, todo \subseteq poll.todo \/ poll.todo = {},
             GoOn(todo, poll.seen)
      PROVE  poll'.todo = todo /\ poll'.seen[r] = poll.seen[r]
  <2>1. \A q \in todo : poll.seen[q] \in Phase \cup {"unseen"}
    BY <1>0
  <2>2. poll'.todo = todo
    BY <1>s, <2>1, PollGoesOn
  <2>3. \A q \in todo : poll'.seen[q] = poll.seen[q]
    BY <1>s DEF GoOn
  <2> QED
    BY <2>2, <2>3
<1>a. ~ Apply(r)
  <2> SUFFICES ASSUME Apply(r) PROVE FALSE
    OBVIOUS
  <2>1. GoOn(poll.todo \ {r}, poll.seen)
    BY DEF Apply
  <2>2. poll'.todo = poll.todo \ {r}
    BY <1>0, <1>s, <2>1
  <2> QED
    BY <2>2
<1>2. CASE PollTick \/ PollWake
  <2>1. poll' = [poll EXCEPT !.pc = "query"]
    BY <1>2 DEF PollTick, PollWake
  <2> QED
    BY <1>0, <1>a, <2>1 DEF Poll
<1>3. CASE Query
  <2>1. Active \subseteq Request /\ poll.todo = {}
    BY <1>3 DEF Active, Query, PollIdle
  <2>2. GoOn(Active, poll.seen) /\ owed' = owed \ Active
    BY <1>3 DEF Query
  <2>3. poll'.todo = Active /\ poll'.seen[r] = poll.seen[r]
    BY <1>s, <2>1, <2>2
  <2> QED
    BY <1>0, <1>3, <1>a, <2>1, <2>2, <2>3 DEF Active
<1>4. ASSUME NEW a \in Account, List(a)
      PROVE  /\ r \in poll.todo /\ UNCHANGED remote
             /\ \/ poll'.seen[r] = poll.seen[r]
                \/ /\ poll'.seen[r] = remote[r].phase
                   /\ poll'.seen[r] \in {"running", "complete", "error"}
  <2> DEFINE todo == {q \in poll.todo : q \in Unlisted(a) => Reported(q)}
             seen == [q \in Request |-> IF q \in Unlisted(a) THEN remote[q].phase
                                        ELSE poll.seen[q]]
  <2>1. GoOn(todo, seen) /\ UNCHANGED remote
    BY <1>4 DEF List
  <2>2. todo \in SUBSET Request /\ \A q \in todo : seen[q] \in Phase \cup {"unseen"}
    BY <1>0 DEF Unlisted, Reported, Phase
  <2> HIDE DEF todo, seen
  <2>3. poll'.todo = todo
    BY <2>1, <2>2, PollGoesOn
  <2>q. \A q \in todo : poll'.seen[q] = seen[q]
    BY <2>1, <2>2, PollGoesOn
  <2>4. poll'.seen[r] = seen[r]
    BY <2>3, <2>q
  <2>5. r \in poll.todo /\ (r \in Unlisted(a) => Reported(r))
    BY <2>3 DEF todo
  <2>6. \/ poll'.seen[r] = poll.seen[r]
        \/ /\ poll'.seen[r] = remote[r].phase
           /\ poll'.seen[r] \in {"running", "complete", "error"}
    BY <1>0, <2>4, <2>5 DEF Reported, seen
  <2> QED
    BY <2>1, <2>5, <2>6
<1>5. ASSUME NEW a \in Account, ListFails(a)
      PROVE  r \in poll.todo /\ poll'.seen[r] = poll.seen[r]
  <2>1. GoOn(poll.todo \ Unlisted(a), poll.seen)
    BY <1>5 DEF ListFails
  <2>2. poll'.todo = poll.todo \ Unlisted(a) /\ poll'.seen[r] = poll.seen[r]
    BY <1>0, <1>s, <2>1
  <2> QED
    BY <2>2
<1>6. ASSUME NEW q \in Request, Apply(q)
      PROVE  r \in poll.todo /\ poll'.seen[r] = poll.seen[r]
  <2>1. GoOn(poll.todo \ {q}, poll.seen)
    BY <1>6 DEF Apply
  <2>2. poll'.todo = poll.todo \ {q} /\ poll'.seen[r] = poll.seen[r]
    BY <1>0, <1>s, <2>1
  <2> QED
    BY <2>2
<1>7. ~ Restart
  BY DEF Restart, Asleep
<1>8. Polling \/ poll' = poll
  <2>1. ASSUME NEW q \in Request, Submission(q) PROVE poll' = poll
    BY <2>1 DEF Submission, CheckKey, RetryTask, Create, CreateFails, Insert, WakePoller,
       SaveKey, Disconnect
  <2>2. ASSUME NEW q \in Request, (\E phase \in Phase : Progress(q, phase)) \/ Age(q)
        PROVE  poll' = poll
    BY <2>2 DEF Progress, Age
  <2>3. ASSUME NEW c \in Cleaner, Cleaning(c) PROVE poll' = poll
    BY <2>3 DEF Cleaning, StartCleaning, SkipTask, DeleteFile, MarkCleaned
  <2>4. CASE Operating
    BY <1>7, <2>4 DEF Operating, StartCall, DropRemote, FinishCall, WipeRemote, WipeRows
  <2> QED
    BY <2>1, <2>2, <2>3, <2>4, NextCases
<1>9. CASE poll' = poll
  BY <1>0, <1>9, <1>a
<1> QED
  BY <1>0, <1>2, <1>3, <1>4, <1>5, <1>6, <1>8, <1>9, <1>a DEF Polling

\* What a cleaner works on: what it worked on before, or what it has just
\* found expired.
LEMMA CleanerChanges ==
    ASSUME TypeOK, Next, NEW c \in Cleaner, NEW r \in Request, r \in ToClean(c)'
    PROVE  \/ r \in ToClean(c)
           \/ r \in Expired /\ UNCHANGED <<row, req, remote, poll>>
<1>t. /\ clean \in [Cleaner -> [todo : SUBSET Request, current : Request \cup {Nothing}]]
      /\ Nothing \notin Request
  BY TasksAssumption DEF TypeOK
<1>0. r \in clean'[c].todo \/ r = clean'[c].current
  BY DEF ToClean
<1>1. CASE clean' = clean
  BY <1>0, <1>1 DEF ToClean
<1>2. ASSUME NEW d \in Cleaner, StartCleaning(d)
      PROVE  r \in ToClean(c) \/ (r \in Expired /\ UNCHANGED <<row, req, remote, poll>>)
  BY <1>t, <1>0, <1>2 DEF StartCleaning, ToClean
<1>3. ASSUME NEW d \in Cleaner, NEW q \in Request, SkipTask(d, q)
      PROVE  r \in ToClean(c)
  BY <1>t, <1>0, <1>3 DEF SkipTask, ToClean
<1>4. ASSUME NEW d \in Cleaner, NEW q \in Request, DeleteFile(d, q)
      PROVE  r \in ToClean(c)
  <2>1. q \in clean[d].todo
        /\ clean' = [clean EXCEPT ![d] = [todo |-> clean[d].todo \ {q}, current |-> q]]
    BY <1>4 DEF DeleteFile
  <2> QED
    BY <1>t, <1>0, <2>1 DEF ToClean
<1>5. ASSUME NEW d \in Cleaner, MarkCleaned(d)
      PROVE  r \in ToClean(c)
  BY <1>t, <1>0, <1>5 DEF MarkCleaned, ToClean
<1>6. ASSUME NEW q \in Request, Submission(q) PROVE clean' = clean
  BY <1>6 DEF Submission, CheckKey, RetryTask, Create, CreateFails, Insert, WakePoller,
     SaveKey, Disconnect
<1>7. ASSUME NEW q \in Request, (\E phase \in Phase : Progress(q, phase)) \/ Age(q)
      PROVE  clean' = clean
  BY <1>7 DEF Progress, Age
<1>8. Polling => clean' = clean
  BY DEF Polling, PollTick, PollWake, Query, List, ListFails, Apply
<1>9. ~ Restart
  BY <1>t, <1>0 DEF Restart, Idle
<1>10. Operating => clean' = clean
  BY <1>9 DEF Operating, StartCall, DropRemote, FinishCall, WipeRemote, WipeRows
<1> QED
  BY <1>1, <1>2, <1>3, <1>4, <1>5, <1>6, <1>7, <1>8, <1>10, NextCases DEF Cleaning

\* A request changes by its own steps, or is lost in a restart.
LEMMA RequestChanges ==
    ASSUME TypeOK, Next, NEW r \in Request
    PROVE  \/ req'[r] = req[r]
           \/ Submission(r)
           \/ Restart /\ req'[r].pc = "lost"
<1>t. req \in [Request -> Req]
  BY DEF TypeOK
<1>1. ASSUME NEW q \in Request, Submission(q)
      PROVE  req'[r] = req[r] \/ Submission(r)
  <2>1. CASE q = r
    BY <1>1, <2>1
  <2>2. CASE q # r
    BY <1>t, <1>1, <2>2 DEF Submission, CheckKey, RetryTask, Create, CreateFails, Insert,
       WakePoller, SaveKey, Disconnect, Step, Answer
  <2> QED
    BY <2>1, <2>2
<1>2. ASSUME NEW q \in Request, (\E phase \in Phase : Progress(q, phase)) \/ Age(q)
      PROVE  req' = req
  BY <1>2 DEF Progress, Age
<1>3. Polling => req' = req
  BY DEF Polling, PollTick, PollWake, Query, List, ListFails, Apply
<1>4. ASSUME NEW c \in Cleaner, Cleaning(c) PROVE req' = req
  BY <1>4 DEF Cleaning, StartCleaning, SkipTask, DeleteFile, MarkCleaned
<1>5. Operating => req' = req \/ Restart
  BY DEF Operating, StartCall, DropRemote, FinishCall, WipeRemote, WipeRows
<1>6. ASSUME Restart PROVE req'[r] = req[r] \/ (Restart /\ req'[r].pc = "lost")
  BY <1>t, <1>6 DEF Restart, Req
<1> QED
  BY <1>1, <1>2, <1>3, <1>4, <1>5, <1>6, NextCases

\* A key changes only when a response is stored under it.
LEMMA KeyChanges ==
    ASSUME TypeOK, Next, NEW k \in Key
    PROVE  \/ key'[k] = key[k]
           \/ \E q \in Request : SaveKey(q) /\ Saves(q) /\ key'[k] = q
<1>1. ASSUME NEW q \in Request, Submission(q)
      PROVE  key' = key \/ SaveKey(q)
  BY <1>1 DEF Submission, CheckKey, RetryTask, Create, CreateFails, Insert, WakePoller,
     Disconnect
<1>2. ASSUME NEW q \in Request, SaveKey(q)
      PROVE  key'[k] = key[k] \/ (Saves(q) /\ key'[k] = q)
  BY <1>2 DEF SaveKey, TypeOK
<1>3. ASSUME NEW q \in Request, (\E phase \in Phase : Progress(q, phase)) \/ Age(q)
      PROVE  key' = key
  BY <1>3 DEF Progress, Age
<1>4. Polling => key' = key
  BY DEF Polling, PollTick, PollWake, Query, List, ListFails, Apply
<1>5. ASSUME NEW c \in Cleaner, Cleaning(c) PROVE key' = key
  BY <1>5 DEF Cleaning, StartCleaning, SkipTask, DeleteFile, MarkCleaned
<1>6. Operating => key' = key
  BY DEF Operating, StartCall, DropRemote, FinishCall, WipeRemote, WipeRows, Restart
<1> QED
  BY <1>1, <1>2, <1>3, <1>4, <1>5, <1>6, NextCases

\* A poll that is about to begin stays so, or asks for the running tasks, or
\* the process restarts; and only Insert adds to what the next poll is owed.
LEMMA WakeChanges ==
    ASSUME TypeOK, PollIdle, Next
    PROVE  /\ (wake \/ poll.pc = "query")
              => wake' \/ poll'.pc = "query" \/ Query \/ owed' = {}
           /\ \A r \in owed' : r \in owed \/ Insert(r)
<1>t. poll \in Poll
  BY DEF TypeOK
<1>1. ASSUME NEW q \in Request, Submission(q)
      PROVE  (wake => wake') /\ poll' = poll /\ \A r \in owed' : r \in owed \/ Insert(r)
  <2>1. CASE Insert(q)
    BY <2>1 DEF Insert
  <2>2. CASE WakePoller(q)
    BY <2>2 DEF WakePoller
  <2>3. Insert(q) \/ WakePoller(q) \/ UNCHANGED <<wake, poll, owed>>
    BY <1>1 DEF Submission, CheckKey, RetryTask, Create, CreateFails, SaveKey, Disconnect
  <2> QED
    BY <2>1, <2>2, <2>3
<1>2. ASSUME NEW q \in Request, (\E phase \in Phase : Progress(q, phase)) \/ Age(q)
      PROVE  UNCHANGED <<wake, poll, owed>>
  BY <1>2 DEF Progress, Age
<1>3. ASSUME NEW c \in Cleaner, Cleaning(c) PROVE UNCHANGED <<wake, poll, owed>>
  BY <1>3 DEF Cleaning, StartCleaning, SkipTask, DeleteFile, MarkCleaned
<1>4. Operating => UNCHANGED <<wake, poll, owed>> \/ owed' = {}
  BY DEF Operating, StartCall, DropRemote, FinishCall, WipeRemote, WipeRows, Restart
<1>5. CASE PollTick \/ PollWake
  BY <1>t, <1>5 DEF PollTick, PollWake, Poll
<1>6. CASE Query
  BY <1>6 DEF Query
<1>7. ASSUME \/ \E a \in Account : List(a) \/ ListFails(a)
             \/ \E r \in Request : Apply(r)
      PROVE  UNCHANGED <<wake, owed>> /\ poll.pc # "query"
  BY <1>7 DEF List, ListFails, Apply, Unlisted, PollIdle
<1> QED
  BY <1>1, <1>2, <1>3, <1>4, <1>5, <1>6, <1>7, NextCases DEF Polling

(***************************************************************************)
(* The invariant is inductive                                              *)
(***************************************************************************)

\* Polls work through a list only while they have one.
LEMMA PollIdleStep ==
    ASSUME TaskInv, Next
    PROVE  PollIdle'
<1>t. TypeOK /\ PollIdle /\ poll \in Poll /\ poll.todo \subseteq Request
  BY DEF TaskInv, TypeOK, Poll
<1>g. ASSUME NEW todo, NEW seen, GoOn(todo, seen) PROVE PollIdle'
  BY <1>g DEF GoOn, Asleep, PollIdle
<1>1. Polling \/ Restart \/ poll' = poll
  <2>1. ASSUME NEW q \in Request, Submission(q) PROVE poll' = poll
    BY <2>1 DEF Submission, CheckKey, RetryTask, Create, CreateFails, Insert, WakePoller,
       SaveKey, Disconnect
  <2>2. ASSUME NEW q \in Request, (\E phase \in Phase : Progress(q, phase)) \/ Age(q)
        PROVE  poll' = poll
    BY <2>2 DEF Progress, Age
  <2>3. ASSUME NEW c \in Cleaner, Cleaning(c) PROVE poll' = poll
    BY <2>3 DEF Cleaning, StartCleaning, SkipTask, DeleteFile, MarkCleaned
  <2>4. Operating => Restart \/ poll' = poll
    BY DEF Operating, StartCall, DropRemote, FinishCall, WipeRemote, WipeRows
  <2> QED
    BY <2>1, <2>2, <2>3, <2>4, NextCases
<1>2. CASE PollTick \/ PollWake
  BY <1>t, <1>2 DEF PollTick, PollWake, PollIdle, Poll
<1>3. CASE Query
  BY <1>g, <1>3 DEF Query
<1>4. ASSUME NEW a \in Account, List(a) \/ ListFails(a) PROVE PollIdle'
  BY <1>g, <1>4 DEF List, ListFails
<1>5. ASSUME NEW r \in Request, Apply(r) PROVE PollIdle'
  BY <1>g, <1>5 DEF Apply
<1>6. CASE Restart
  BY <1>6 DEF Restart, Asleep, PollIdle
<1>7. CASE poll' = poll
  BY <1>t, <1>7 DEF PollIdle
<1> QED
  BY <1>1, <1>2, <1>3, <1>4, <1>5, <1>6, <1>7 DEF Polling

\* A row that is there is written by a poll or a cleaner only if that works on
\* it, and by nobody else but operators.
LEMMA StoredStatusChanges ==
    ASSUME TaskInv, Next, NEW r \in Request, row[r].status # "none"
    PROVE  \/ row'[r].status = row[r].status
           \/ r \in poll.todo /\ Apply(r)
           \/ \E c \in Cleaner : r \in ToClean(c) /\ Present(r) /\ row'[r].status = "CLEANED"
           \/ Present(r) /\ row'[r].status \in {"CANCELLED", "deleted"}
<1>t. TypeOK /\ Unborn
  BY DEF TaskInv
<1>1. ~ Insert(r)
  BY <1>t DEF Unborn, Insert
<1>2. Apply(r) => r \in poll.todo
  BY DEF Apply
<1>3. ASSUME NEW c \in Cleaner, MarkCleaned(c), clean[c].current = r
      PROVE  \/ row'[r].status = row[r].status
             \/ r \in ToClean(c) /\ Present(r) /\ row'[r].status = "CLEANED"
  BY <1>t, <1>3, StatusSetEffect DEF MarkCleaned, ToClean
<1> QED
  BY <1>t, <1>1, <1>2, <1>3, StatusChanges

\* A phase that is an end stays, once the task is created.
LEMMA EndsStay ==
    ASSUME TaskInv, Next, NEW r \in Request, remote[r].phase \in Ended,
           req[r].pc # "create"
    PROVE  remote'[r].phase = remote[r].phase
  BY PhaseChanges DEF TaskInv, Ended

\* A request for which there is a row has got beyond its creation.
LEMMA StoredIsCreated ==
    ASSUME TaskInv, NEW r \in Request, row[r].status # "none"
    PROVE  req[r].pc \notin {"idle", "create", "insert"}
  BY DEF TaskInv, Unborn

\* What PikPak said about the completion of a task is not taken back.
LEMMA SaidStays ==
    ASSUME TaskInv, Next, NEW r \in Request, SaidComplete(r), req[r].pc # "create"
    PROVE  SaidComplete(r)'
<1>t. TypeOK /\ req \in [Request -> Req] /\ req[r] \in Req
  BY DEF TaskInv, TypeOK
<1>1. req'[r].instant = req[r].instant
  <2>1. CASE Submission(r)
    <3>1. ~ \E a \in Account, phase \in Phase, full \in BOOLEAN : Create(r, a, phase, full)
      BY DEF Create
    <3>2. ASSUME NEW k \in Key \cup {NoKey}, CheckKey(r, k)
          PROVE  req'[r].instant = req[r].instant
      BY <1>t, <3>2 DEF CheckKey, Req
    <3>3. CASE RetryTask(r) \/ CreateFails(r) \/ Insert(r) \/ WakePoller(r)
      BY <1>t, <3>3 DEF RetryTask, CreateFails, Insert, WakePoller, Step, Req
    <3>4. CASE SaveKey(r)
      <4>1. CASE req[r].left
        BY <1>t, <3>4, <4>1 DEF SaveKey, Step, Req
      <4>2. CASE ~ req[r].left
        <5>1. req'[r] = [req[r] EXCEPT !.pc = "answered", !.result = r]
          BY <1>t, <3>4, <4>2 DEF SaveKey, Answer
        <5>2. [req[r] EXCEPT !.pc = "answered", !.result = r].instant = req[r].instant
          BY <1>t DEF Req
        <5> QED
          BY <5>1, <5>2
      <4> QED
        BY <4>1, <4>2
    <3>5. CASE Disconnect(r)
      BY <1>t, <3>5 DEF Disconnect, Req
    <3> QED
      BY <2>1, <3>1, <3>2, <3>3, <3>4, <3>5 DEF Submission
  <2>2. CASE Restart
    BY <1>t, <2>2 DEF Restart, Req
  <2> QED
    BY <1>t, <2>1, <2>2, RequestChanges
<1>2. remote[r].phase = "complete" => remote'[r].phase = "complete"
  BY EndsStay DEF Ended
<1> QED
  BY <1>1, <1>2 DEF SaidComplete

\* What a poll has still to write stays true and apart from what is owed.
LEMMA PolledStep ==
    ASSUME TaskInv, Next
    PROVE  Polled'
<1> SUFFICES ASSUME NEW r \in poll'.todo
             PROVE  /\ row'[r].status \in {"RUNNING", "CANCELLED", "deleted"}
                    /\ poll'.seen[r] \in {"unseen", "running", "complete", "error"}
                    /\ poll'.seen[r] \in Ended => remote'[r].phase = poll'.seen[r]
                    /\ r \notin owed'
  BY DEF Polled
<1>t. TypeOK /\ PollIdle /\ Polled /\ Cleaned
  BY DEF TaskInv
<1>r. r \in Request /\ ~ Apply(r)
  BY <1>t, PollChanges
<1>1. CASE r \in poll.todo
  <2>1. row[r].status \in {"RUNNING", "CANCELLED", "deleted"} /\ r \notin owed
    BY <1>t, <1>1 DEF Polled
  <2>2. \A c \in Cleaner : r \notin ToClean(c)
    BY <1>t, <1>1, <1>r DEF Cleaned
  <2>3. row'[r].status \in {"RUNNING", "CANCELLED", "deleted"}
    BY <1>r, <2>1, <2>2, StoredStatusChanges
  <2>4. req[r].pc \notin {"create", "insert"}
    BY <1>r, <2>1, StoredIsCreated
  <2>5. r \notin owed'
    BY <1>t, <2>1, <2>4, WakeChanges DEF Insert
  <2>6. CASE poll'.seen[r] = poll.seen[r]
    <3>1. /\ poll.seen[r] \in {"unseen", "running", "complete", "error"}
          /\ poll.seen[r] \in Ended => remote[r].phase = poll.seen[r]
      BY <1>t, <1>1 DEF Polled
    <3>2. poll.seen[r] \in Ended => remote'[r].phase = poll.seen[r]
      BY <1>r, <2>4, <3>1, EndsStay
    <3> QED
      BY <2>3, <2>5, <2>6, <3>1, <3>2
  <2>7. CASE /\ UNCHANGED remote
             /\ poll'.seen[r] = remote[r].phase
             /\ poll'.seen[r] \in {"running", "complete", "error"}
    BY <2>3, <2>5, <2>7
  <2>8. CASE Query
    BY <1>t, <1>1, <2>8 DEF Query, PollIdle
  <2> QED
    BY <1>t, <2>6, <2>7, <2>8, PollChanges
<1>2. CASE r \notin poll.todo
  <2>1. Query /\ row[r].status = "RUNNING" /\ r \notin owed' /\ poll'.seen[r] = "unseen"
    BY <1>t, <1>2, PollChanges
  <2>2. row' = row
    BY <2>1 DEF Query
  <2> QED
    BY <2>1, <2>2 DEF Ended
<1> QED
  BY <1>1, <1>2

\* What a cleaner works on stays complete and apart from what is polled.
LEMMA CleanedStep ==
    ASSUME TaskInv, Next
    PROVE  Cleaned'
<1> SUFFICES ASSUME NEW c \in Cleaner, NEW r \in Request, r \in ToClean(c)'
             PROVE  /\ row'[r].status \in {"COMPLETE", "CLEANED", "CANCELLED", "deleted"}
                    /\ SaidComplete(r)'
                    /\ r \notin poll'.todo
  BY DEF Cleaned
<1>t. TypeOK /\ PollIdle /\ Polled /\ Cleaned /\ StatusMatchesOutcome
  BY DEF TaskInv
<1>1. CASE r \in ToClean(c)
  <2>1. /\ row[r].status \in {"COMPLETE", "CLEANED", "CANCELLED", "deleted"}
        /\ SaidComplete(r) /\ r \notin poll.todo
    BY <1>t, <1>1 DEF Cleaned
  <2>2. row'[r].status \in {"COMPLETE", "CLEANED", "CANCELLED", "deleted"}
    BY <2>1, StoredStatusChanges
  <2>3. SaidComplete(r)'
    BY <2>1, StoredIsCreated, SaidStays
  <2>4. r \notin poll'.todo
    BY <1>t, <2>1, PollChanges
  <2> QED
    BY <2>2, <2>3, <2>4
<1>2. CASE r \in Expired /\ UNCHANGED <<row, req, remote, poll>>
  BY <1>t, <1>2 DEF Expired, StatusMatchesOutcome, SaidComplete, Polled
<1> QED
  BY <1>t, <1>1, <1>2, CleanerChanges

\* A request goes forward: it never comes back to where it has no row yet.
LEMMA Forward ==
    ASSUME TypeOK, NEW r \in Request, Submission(r)
    PROVE  \/ /\ req[r].pc \in {"idle", "create", "insert"}
              /\ req'[r].pc # "idle"
           \/ req'[r].pc \notin {"idle", "create", "insert"}
<1>t. /\ req \in [Request -> Req] /\ req[r] \in Req
      /\ remote \in [Request -> RemoteTask]
  BY DEF TypeOK
<1>1. ASSUME NEW k \in Key \cup {NoKey}, CheckKey(r, k)
      PROVE  req[r].pc = "idle" /\ req'[r].pc \in {"create", "answered"}
  BY <1>t, <1>1 DEF CheckKey, Req
<1>2. CASE RetryTask(r)
  BY <1>t, <1>2 DEF RetryTask, Step, Req
<1>3. ASSUME NEW a \in Account, NEW phase \in Phase, NEW full \in BOOLEAN,
             Create(r, a, phase, full)
      PROVE  req[r].pc = "create" /\ req'[r].pc = "insert"
  BY <1>t, <1>3 DEF Create, Req
<1>4. CASE CreateFails(r) \/ Insert(r) \/ WakePoller(r) \/ SaveKey(r)
  BY <1>t, <1>4, SavingOutcome DEF CreateFails, Insert, WakePoller, Step, Req
<1>5. CASE Disconnect(r)
  <2>1. req'[r] = [req[r] EXCEPT !.left = TRUE] /\ req[r].pc # "idle"
    BY <1>t, <1>5 DEF Disconnect, InFlight
  <2>2. [req[r] EXCEPT !.left = TRUE].pc = req[r].pc
    BY <1>t DEF Req
  <2> QED
    BY <2>1, <2>2
<1> QED
  BY <1>1, <1>2, <1>3, <1>4, <1>5 DEF Submission

\* Before Insert there stays nothing to poll or clean.
LEMMA UnbornStep ==
    ASSUME TaskInv, Next
    PROVE  Unborn'
<1> SUFFICES ASSUME NEW r \in Request
             PROVE  /\ req'[r].pc \in {"idle", "create", "insert"} => row'[r].status = "none"
                    /\ req'[r].pc = "idle" => req'[r].key = NoKey
  BY DEF Unborn
<1>t. TypeOK /\ Unborn /\ Polled /\ Cleaned /\ req \in [Request -> Req]
  BY DEF TaskInv, TypeOK
<1>0. CASE req'[r].pc \notin {"idle", "create", "insert"}
  BY <1>0
<1>1. CASE req'[r].pc \in {"idle", "create", "insert"}
  <2>1. req[r].pc \in {"idle", "create", "insert"}
    BY <1>t, <1>1, RequestChanges, Forward
  <2>2. row[r].status = "none"
    BY <1>t, <2>1 DEF Unborn
  <2>3. ~ Insert(r)
    BY <1>t, <1>1 DEF Insert, Step, Req
  <2>4. ~ Apply(r)
    BY <1>t, <2>2 DEF Apply, Polled
  <2>5. ~ \E c \in Cleaner : MarkCleaned(c) /\ clean[c].current = r
    BY <1>t, <2>2 DEF Cleaned, ToClean
  <2>6. row'[r].status = "none"
    BY <1>t, <2>2, <2>3, <2>4, <2>5, StatusChanges DEF Present, Stored
  <2>7. CASE req'[r] = req[r]
    BY <1>t, <2>6, <2>7 DEF Unborn
  <2>8. CASE Submission(r)
    <3>1. req'[r].pc # "idle"
      BY <1>t, <1>1, <2>8, Forward
    <3> QED
      BY <2>6, <3>1
  <2> QED
    BY <1>t, <1>1, <2>7, <2>8, RequestChanges
<1> QED
  BY <1>0, <1>1

\* Rows go on saying how their downloads ended.
LEMMA OutcomeStep ==
    ASSUME TaskInv, Next
    PROVE  StatusMatchesOutcome'
<1> SUFFICES ASSUME NEW r \in Request
             PROVE  /\ row'[r].status \in {"COMPLETE", "CLEANED"} => SaidComplete(r)'
                    /\ row'[r].status = "ERROR" => remote'[r].phase = "error"
  BY DEF StatusMatchesOutcome
<1>t. TypeOK /\ Unborn /\ Polled /\ Cleaned /\ StatusMatchesOutcome
      /\ row \in [Request -> Row] /\ req \in [Request -> Req]
  BY DEF TaskInv, TypeOK
<1>1. CASE row'[r].status = row[r].status
  <2>1. row[r].status \in {"COMPLETE", "CLEANED"} => SaidComplete(r)'
    BY <1>t, StoredIsCreated, SaidStays DEF StatusMatchesOutcome
  <2>2. row[r].status = "ERROR" => remote'[r].phase = remote[r].phase
    BY <1>t, StoredIsCreated, EndsStay DEF StatusMatchesOutcome, Ended
  <2> QED
    BY <1>t, <1>1, <2>1, <2>2 DEF StatusMatchesOutcome
<1>2. CASE Insert(r)
  <2>1. req'[r].instant = req[r].instant
    BY <1>t, <1>2 DEF Insert, Step, Req
  <2>3. \/ row' = row
        \/ req[r].instant /\ row'[r].status = "COMPLETE"
        \/ row'[r].status = "RUNNING"
    BY <1>t, <1>2 DEF Insert
  <2> QED
    BY <1>1, <2>1, <2>3 DEF SaidComplete
<1>3. CASE Apply(r)
  <2>1. /\ poll.seen[r] \in {"running", "complete", "error"}
        /\ poll.seen[r] \in Ended => remote[r].phase = poll.seen[r]
    BY <1>t, <1>3 DEF Apply, Polled
  <2>2. row' = row \/ row'[r].status = StatusOf(poll.seen[r])
    BY <1>t, <1>3 DEF Apply
  <2>3. remote' = remote
    BY <1>3 DEF Apply
  <2>4. CASE poll.seen[r] = "running"
    BY <1>1, <2>2, <2>4 DEF StatusOf
  <2>5. CASE poll.seen[r] = "complete"
    BY <1>1, <2>1, <2>2, <2>3, <2>5 DEF StatusOf, Ended, SaidComplete
  <2>6. CASE poll.seen[r] = "error"
    BY <1>1, <2>1, <2>2, <2>3, <2>6 DEF StatusOf, Ended
  <2> QED
    BY <2>1, <2>4, <2>5, <2>6
<1>4. ASSUME NEW c \in Cleaner, MarkCleaned(c), clean[c].current = r
      PROVE  /\ row'[r].status \in {"COMPLETE", "CLEANED"} => SaidComplete(r)'
             /\ row'[r].status = "ERROR" => remote'[r].phase = "error"
  <2>1. SaidComplete(r) /\ remote' = remote /\ req' = req
    BY <1>t, <1>4 DEF Cleaned, ToClean, MarkCleaned
  <2>2. row'[r].status = row[r].status \/ row'[r].status = "CLEANED"
    BY <1>t, <1>4, StatusSetEffect DEF MarkCleaned
  <2> QED
    BY <1>1, <2>1, <2>2 DEF SaidComplete
<1> QED
  BY <1>t, <1>1, <1>2, <1>3, <1>4, StatusChanges

\* The next poll stays due while a running task is owed to it.
LEMMA WakeStep ==
    ASSUME TaskInv, Next
    PROVE  NoLostWake'
<1> SUFFICES ASSUME NEW r \in owed', row'[r].status = "RUNNING",
                    req'[r].pc \notin {"insert", "wake"}
             PROVE  wake' \/ poll'.pc = "query"
  BY DEF NoLostWake
<1>t. TypeOK /\ PollIdle /\ Unborn /\ Polled /\ Cleaned /\ NoLostWake
      /\ owed \subseteq Request /\ req \in [Request -> Req]
  BY DEF TaskInv, TypeOK
<1>1. ~ Insert(r)
  <2>1. r \in Request
    BY TypeStep DEF TypeOK
  <2> QED
    BY <1>t, <2>1 DEF Insert, Step, Req
<1>2. r \in owed /\ r \in Request
  BY <1>t, <1>1, WakeChanges
<1>3. row[r].status = "RUNNING"
  <2>1. ~ (r \in poll.todo)
    BY <1>t, <1>2 DEF Polled
  <2>2. ~ Apply(r)
    BY <2>1 DEF Apply
  <2>3. ASSUME NEW c \in Cleaner, MarkCleaned(c), clean[c].current = r
        PROVE  row'[r].status \in {row[r].status, "CLEANED"}
    BY <1>t, <1>2, <2>3, StatusSetEffect DEF MarkCleaned
  <2> QED
    BY <1>t, <1>1, <1>2, <2>2, <2>3, StatusChanges
<1>4. ~ Query
  BY <1>2, <1>3 DEF Query, Active
<1>5. CASE req[r].pc \notin {"insert", "wake"}
  BY <1>t, <1>2, <1>3, <1>4, <1>5, WakeChanges DEF NoLostWake
<1>6. CASE req[r].pc = "wake"
  <2>1. CASE Submission(r)
    <3>1. WakePoller(r) \/ Disconnect(r)
      BY <1>6, <2>1 DEF Submission, CheckKey, RetryTask, Create, CreateFails, Insert, SaveKey
    <3>2. ~ Disconnect(r)
      BY <1>t, <1>2, <1>6 DEF Disconnect, Req
    <3> QED
      BY <3>1, <3>2 DEF WakePoller
  <2>2. CASE req'[r] = req[r]
    BY <1>6, <2>2
  <2>3. ~ Restart
    BY DEF Restart
  <2> QED
    BY <1>t, <1>2, <2>1, <2>2, <2>3, RequestChanges
<1>7. req[r].pc # "insert"
  BY <1>2, <1>3, StoredIsCreated
<1> QED
  BY <1>5, <1>6, <1>7

\* A stored response names a recorded task, and stays stored.
LEMMA KeysStep ==
    ASSUME TaskInv, Next, NEW k \in Key
    PROVE  /\ key'[k] # Nothing => row'[key'[k]].status # "none"
           /\ key[k] # Nothing => key'[k] # Nothing
<1>t. /\ TypeOK /\ Polled /\ Recorded /\ Nothing \notin Request
      /\ key[k] \in Request \cup {Nothing}
  BY TasksAssumption DEF TaskInv, TypeOK
<1>1. CASE key'[k] = key[k]
  BY <1>t, <1>1, RowsStay DEF Recorded
<1>2. ASSUME NEW q \in Request, SaveKey(q), Saves(q), key'[k] = q
      PROVE  row'[q].status # "none"
  BY <1>t, <1>2, RowsStay DEF Recorded, SaveKey, Saves
<1> QED
  BY <1>t, <1>1, <1>2, KeyChanges

\* What is recorded stays so, and nothing else is answered.
LEMMA RecordedStep ==
    ASSUME TaskInv, Next
    PROVE  Recorded'
<1>t. /\ TypeOK /\ Polled /\ Recorded /\ Nothing \notin Request
      /\ req \in [Request -> Req] /\ row \in [Request -> Row]
      /\ key \in [Key -> Request \cup {Nothing}] /\ NoKey \notin Key
  BY TasksAssumption DEF TaskInv, TypeOK
<1>1. ASSUME NEW r \in Request
      PROVE  req'[r].pc \in {"wake", "save"} /\ ~ req'[r].left => row'[r].status # "none"
  <2>1. CASE req'[r] = req[r]
    BY <1>t, <2>1, RowsStay DEF Recorded
  <2>2. CASE Insert(r)
    BY <1>t, <2>2 DEF Insert, Step, Req
  <2>3. CASE WakePoller(r)
    <3>1. req'[r].left = req[r].left /\ req[r].pc = "wake"
      BY <1>t, <2>3 DEF WakePoller, Step, Req
    <3> QED
      BY <1>t, <3>1, RowsStay DEF Recorded
  <2>4. CASE Disconnect(r)
    BY <1>t, <2>4 DEF Disconnect, Req
  <2>5. ASSUME Submission(r), ~ Insert(r), ~ WakePoller(r), ~ Disconnect(r)
        PROVE  req'[r].pc \notin {"wake", "save"}
    <3>1. ASSUME NEW k \in Key \cup {NoKey}, CheckKey(r, k)
          PROVE  req'[r].pc \notin {"wake", "save"}
      BY <1>t, <3>1 DEF CheckKey, Req
    <3>2. CASE RetryTask(r) \/ CreateFails(r) \/ SaveKey(r)
      BY <1>t, <3>2, SavingOutcome DEF RetryTask, CreateFails, Step, Req
    <3>3. ASSUME NEW a \in Account, NEW phase \in Phase, NEW full \in BOOLEAN,
                 Create(r, a, phase, full)
          PROVE  req'[r].pc \notin {"wake", "save"}
      BY <1>t, <3>3 DEF Create, Req
    <3> QED
      BY <2>5, <3>1, <3>2, <3>3 DEF Submission
  <2> QED
    BY <1>t, <2>1, <2>2, <2>3, <2>4, <2>5, RequestChanges
<1>2. ASSUME NEW r \in Request, req'[r].pc = "answered"
      PROVE  /\ req'[r].result \in Request
             /\ row'[req'[r].result].status # "none"
             /\ req'[r].key # NoKey => key'[req'[r].key] # Nothing
  <2>1. CASE req'[r] = req[r]
    <3>1. /\ req[r].result \in Request
          /\ row[req[r].result].status # "none"
          /\ req[r].key # NoKey => key[req[r].key] # Nothing
      BY <1>2, <1>t, <2>1 DEF Recorded
    <3>2. row'[req[r].result].status # "none"
      BY <1>t, <3>1, RowsStay
    <3>3. req[r].key # NoKey => key'[req[r].key] # Nothing
      BY <1>t, <3>1, KeysStep DEF Req
    <3> QED
      BY <2>1, <3>1, <3>2, <3>3
  <2>2. ASSUME NEW k \in Key \cup {NoKey}, CheckKey(r, k)
        PROVE  /\ req'[r].result \in Request
               /\ row'[req'[r].result].status # "none"
               /\ req'[r].key # NoKey => key'[req'[r].key] # Nothing
    <3>1. k # NoKey /\ key[k] # Nothing /\ key[k] \in Request
      BY <1>2, <1>t, <2>2 DEF CheckKey, Req
    <3>2. req'[r].result = key[k] /\ req'[r].key = k
      BY <1>t, <2>2, <3>1 DEF CheckKey, Req
    <3>3. row[key[k]].status # "none"
      BY <1>t, <3>1 DEF Recorded
    <3> QED
      BY <1>t, <3>1, <3>2, <3>3, RowsStay, KeysStep
  <2>3. CASE SaveKey(r)
    <3>1. ~ req[r].left /\ req[r].pc = "save"
      BY <1>2, <1>t, <2>3 DEF SaveKey, Step, Req
    <3>2. req'[r].result = r /\ req'[r].key = req[r].key
      BY <1>t, <2>3, <3>1, SavingOutcome
    <3>3. row'[r].status # "none"
      BY <1>t, <3>1, RowsStay DEF Recorded
    <3>4. req[r].key # NoKey => key'[req[r].key] # Nothing
      BY <1>t, <2>3, <3>1 DEF SaveKey, Saves, Req
    <3> QED
      BY <3>2, <3>3, <3>4
  <2>4. ASSUME Submission(r), ~ SaveKey(r)
        PROVE  \E k \in Key \cup {NoKey} : CheckKey(r, k)
    <3>1. ASSUME NEW a \in Account, NEW phase \in Phase, NEW full \in BOOLEAN,
                 Create(r, a, phase, full)
          PROVE  FALSE
      BY <1>2, <1>t, <3>1 DEF Create, Req
    <3>2. ~ (RetryTask(r) \/ CreateFails(r) \/ Insert(r) \/ WakePoller(r))
      BY <1>2, <1>t DEF RetryTask, CreateFails, Insert, WakePoller, Step, Req
    <3>3. ~ Disconnect(r)
      BY <1>2, <1>t DEF Disconnect, InFlight, Req
    <3> QED
      BY <2>4, <3>1, <3>2, <3>3 DEF Submission
  <2> QED
    BY <1>2, <1>t, <2>1, <2>2, <2>3, <2>4, RequestChanges
<1> QED
  BY <1>1, <1>2, KeysStep DEF Recorded

\* A process starts with empty tables.
LEMMA InitTaskInv == Init => TaskInv
<1> SUFFICES ASSUME Init PROVE TaskInv
  OBVIOUS
<1>1. TypeOK
  BY InitType
<1>2. PollIdle /\ Polled /\ NoLostWake
  BY DEF Init, Asleep, PollIdle, Polled, NoLostWake
<1>3. Unborn /\ Recorded /\ StatusMatchesOutcome
  BY DEF Init, Unborn, Recorded, StatusMatchesOutcome
<1>4. Cleaned
  BY TasksAssumption DEF Init, Idle, Cleaned, ToClean
<1> QED
  BY <1>1, <1>2, <1>3, <1>4 DEF TaskInv

\* The invariant is inductive.
LEMMA TaskInvStep == TaskInv /\ [Next]_vars => TaskInv'
<1> SUFFICES ASSUME TaskInv, [Next]_vars PROVE TaskInv'
  OBVIOUS
<1>1. CASE UNCHANGED vars
  BY <1>1 DEF vars, TaskInv, TypeOK, PollIdle, Unborn, Polled, Cleaned, ToClean, Recorded,
     StatusMatchesOutcome, SaidComplete, NoLostWake
<1>2. CASE Next
  BY <1>2, TypeStep, PollIdleStep, UnbornStep, PolledStep, CleanedStep, RecordedStep,
     OutcomeStep, WakeStep DEF TaskInv
<1> QED
  BY <1>1, <1>2

\* The invariant holds throughout.
LEMMA SpecTaskInv == Spec => []TaskInv
  BY InitTaskInv, TaskInvStep, PTL DEF Spec

(***************************************************************************)
(* The theorems                                                            *)
(***************************************************************************)

\* Every variable stays in its domain; in particular a poll writes no status
\* that the table does not know.
THEOREM TasksTypeCorrect == Spec => []TypeOK
<1>1. TaskInv => TypeOK
  BY DEF TaskInv
<1> QED
  BY <1>1, SpecTaskInv, PTL

\* A success that a client hears names a task that was recorded, whatever
\* disconnects or restarts on the way, also when it is replayed for a key.
THEOREM AnswersAreRecorded == Spec => []AnsweredTaskRecorded
<1>1. TaskInv => AnsweredTaskRecorded
  BY DEF TaskInv, Recorded, AnsweredTaskRecorded
<1> QED
  BY <1>1, SpecTaskInv, PTL

\* The one-place wake channel loses no signal that matters.
THEOREM NoWakeIsLost == Spec => []NoLostWake
<1>1. TaskInv => NoLostWake
  BY DEF TaskInv
<1> QED
  BY <1>1, SpecTaskInv, PTL

\* A row says how its download ended only if PikPak said so, by its phase or in
\* the answer to its creation, however late a poll or a cleaner writes.
THEOREM RowsMatchOutcomes == Spec => []StatusMatchesOutcome
<1>1. TaskInv => StatusMatchesOutcome
  BY DEF TaskInv
<1> QED
  BY <1>1, SpecTaskInv, PTL

\* A finished or cleaned row is not taken back by a poll or a cleaner that
\* started earlier.
THEOREM FinishedStaysFinished == Spec => FinishedNotReopened
<1> DEFINE A == \A r \in Request :
                  /\ row[r].status = "COMPLETE"
                     => row'[r].status \in {"COMPLETE", "CLEANED", "CANCELLED", "deleted"}
                  /\ row[r].status \in {"ERROR", "CLEANED"}
                     => row'[r].status \in {row[r].status, "CANCELLED", "deleted"}
<1>1. TaskInv /\ [Next]_vars => [A]_vars
  <2> SUFFICES ASSUME TaskInv, Next, NEW r \in Request,
                      row[r].status \in {"COMPLETE", "ERROR", "CLEANED"}
               PROVE  /\ row[r].status = "COMPLETE"
                         => row'[r].status \in {"COMPLETE", "CLEANED", "CANCELLED", "deleted"}
                      /\ row[r].status \in {"ERROR", "CLEANED"}
                         => row'[r].status \in {row[r].status, "CANCELLED", "deleted"}
    BY DEF vars
  <2>1. r \notin poll.todo
    BY DEF TaskInv, Polled
  <2>2. ASSUME NEW c \in Cleaner, r \in ToClean(c) PROVE row[r].status # "ERROR"
    BY <2>2 DEF TaskInv, Cleaned
  <2> QED
    BY <2>1, <2>2, StoredStatusChanges
<1> QED
  BY <1>1, SpecTaskInv, PTL DEF Spec, FinishedNotReopened

\* Once a request with some key has been answered, no later request with that
\* key reaches the scheduler.
THEOREM AnsweredKeysCreateNothing == Spec => AnsweredKeyCreatesNothing
<1> DEFINE A == \A r, q \in Request :
                  /\ req[q].pc = "answered" /\ req[q].key # NoKey
                  /\ req[r].pc = "idle" /\ req'[r].key = req[q].key
                  => req'[r].pc # "create"
<1>1. TaskInv /\ [Next]_vars => [A]_vars
  <2> SUFFICES ASSUME TaskInv, Next, NEW r \in Request, NEW q \in Request,
                      req[q].pc = "answered", req[q].key # NoKey,
                      req[r].pc = "idle", req'[r].key = req[q].key
               PROVE  req'[r].pc # "create"
    BY DEF vars
  <2>t. /\ req \in [Request -> Req] /\ TypeOK
        /\ req[r].key = NoKey /\ key[req[q].key] # Nothing
    BY DEF TaskInv, TypeOK, Unborn, Recorded
  <2>1. CASE Submission(r)
    <3>1. RetryTask(r) \/ \E k \in Key \cup {NoKey} : CheckKey(r, k)
      BY <2>1 DEF Submission, Create, CreateFails, Insert, WakePoller, SaveKey, Disconnect,
         InFlight
    <3>2. ~ RetryTask(r)
      BY <2>t DEF RetryTask, Step, Req
    <3>3. PICK k \in Key \cup {NoKey} : CheckKey(r, k)
      BY <3>1, <3>2
    <3>4. k = req[q].key
      BY <2>t, <3>3 DEF CheckKey, Req
    <3> QED
      BY <2>t, <3>3, <3>4 DEF CheckKey, Req
  <2> QED
    BY <2>t, <2>1, RequestChanges
<1> QED
  BY <1>1, SpecTaskInv, PTL DEF Spec, AnsweredKeyCreatesNothing

=============================================================================
