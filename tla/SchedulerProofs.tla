-------------------------- MODULE SchedulerProofs --------------------------
(***************************************************************************)
(* Theorems about Scheduler for every set of accounts and submissions,     *)
(* every table, every bound.                                               *)
(***************************************************************************)
EXTENDS Scheduler, FiniteSetTheorems, TLAPS

(***************************************************************************)
(* The statements map rows to rows.                                        *)
(***************************************************************************)

\* Every UPDATE statement maps an account row to an account row.
LEMMA RowFunctions ==
    ASSUME NEW r \in Row, NEW d \in Date, NEW st \in Status
    PROVE  /\ Failed(r, st) \in Row
           /\ Exhausted(r, d) \in Row
           /\ QuotaReset(r) \in Row
           /\ TaskCounted(r, d) \in Row
           /\ AutoReset(r, d) \in Row
<1>1. NoDate \in Date
  BY DEF Date
<1>2. Failed(r, st) \in Row
  BY DEF Row, Failed, WhereLive
<1>3. Exhausted(r, d) \in Row
  BY DEF Row, Exhausted, WhereLive, Status
<1>4. QuotaReset(r) \in Row
  BY <1>1 DEF Row, QuotaReset, WhereLive, Status
<1>5. TaskCounted(r, d) \in Row
  <2> DEFINE c == IF r.lastDay = d THEN r.count + 1 ELSE 1
  <2>1. c \in Nat
    BY DEF Row
  <2>2. TaskCounted(r, d) = WhereLive(r, [r EXCEPT !.count = c, !.lastDay = d])
    BY DEF TaskCounted
  <2> HIDE DEF c
  <2> QED
    BY <2>1, <2>2 DEF Row, WhereLive
<1>6. AutoReset(r, d) \in Row
  BY <1>1 DEF Row, AutoReset, Status
<1> QED
  BY <1>2, <1>3, <1>4, <1>5, <1>6

\* A statement that writes well-formed rows keeps the table and the history
\* of serviceable accounts well-formed.
LEMMA TableWritten ==
    ASSUME TypeOK, NEW new \in [Account -> Row], WriteTable(new)
    PROVE  row' \in [Account -> Row] /\ steady' \in [Submission -> SUBSET Account]
  BY DEF TypeOK, WriteTable

\* The same for a statement that writes one row.
LEMMA RowWritten ==
    ASSUME TypeOK, NEW a \in Account, NEW r \in Row, WriteRow(a, r)
    PROVE  row' \in [Account -> Row] /\ steady' \in [Submission -> SUBSET Account]
  BY TableWritten DEF TypeOK, WriteRow

\* AutoResetDailyQuotas keeps the table well-formed.
LEMMA RowsReset ==
    ASSUME TypeOK, NEW d \in Date
    PROVE  ResetRows(d) \in [Account -> Row]
<1>1. ASSUME NEW a \in Account PROVE AutoReset(row[a], d) \in Row
  <2>1. row[a] \in Row
    BY DEF TypeOK
  <2>2. "HEALTHY" \in Status
    BY DEF Status
  <2> QED
    BY <2>1, <2>2, RowFunctions
<1> QED
  BY <1>1 DEF ResetRows

(***************************************************************************)
(* Type correctness                                                        *)
(***************************************************************************)

\* A process starts in a well-formed state.
LEMMA InitType == Init => TypeOK
<1> SUFFICES ASSUME Init PROVE TypeOK
  OBVIOUS
<1>1. NewSub \in SubState
  BY SchedulerAssumption DEF NewSub, SubState, PC, Answer, Result, Date
<1>2. row \in [Account -> Row]
  BY SchedulerAssumption DEF Init
<1>3. today \in Day
  BY PoolAssumption DEF Init, Day
<1> QED
  BY <1>1, <1>2, <1>3 DEF Init, TypeOK, Date

\* The account of a submission that is past the selection is one it has tried.
Occupied == {"lock", "client", "call", "answered", "write"}

AccountChosen ==
    \A s \in Submission : sub[s].pc \in Occupied => sub[s].acc \in sub[s].tried

TypeInv == TypeOK /\ AccountChosen

\* At the start nobody has selected an account.
LEMMA InitTypeInv == Init => TypeInv
  BY InitType DEF TypeInv, AccountChosen, Init, NewSub, Occupied

\* Writing well-formed local variables of one submission keeps all of them
\* well-formed.
LEMMA SubWritten ==
    ASSUME TypeInv, NEW s \in Submission, NEW v \in SubState,
           v.pc \in Occupied => v.acc \in v.tried,
           sub' = [sub EXCEPT ![s] = v]
    PROVE  sub' \in [Submission -> SubState] /\ AccountChosen'
  BY DEF TypeInv, TypeOK, AccountChosen

\* A step that leaves the world alone keeps the type invariant if each of the
\* variables it writes stays in its domain.
LEMMA Pieces ==
    ASSUME TypeInv,
           sub' \in [Submission -> SubState], AccountChosen',
           row' \in [Account -> Row], steady' \in [Submission -> SUBSET Account],
           cursor' \in [Prio -> Nat],
           lock' \in [Account -> Submission \cup {Nobody}],
           client' \in [Account -> [gen : Nat, cached : BOOLEAN]],
           cooling' \subseteq Account \X Nat,
           UNCHANGED world
    PROVE  TypeInv'
  BY DEF TypeInv, TypeOK, world

\* Recording an answer keeps the local variables of a submission well-formed.
LEMMA HeardShape ==
    ASSUME NEW v \in SubState, NEW a \in Account, NEW o \in Answer,
           NEW p \in PC, NEW k \in 0 .. Attempts - 1
    PROVE  [v EXCEPT !.pc = p, !.n = k, !.answer[a] = o] \in SubState
  BY DEF SubState

\* The steps of a submission, of which Work(s) and Submit(s) consist.
LEMMA SubmissionTypes ==
    ASSUME TypeInv, NEW s \in Submission, Submit(s) \/ Work(s)
    PROVE  TypeInv'
<1> DEFINE Good(v) == v \in SubState /\ (v.pc \in Occupied => v.acc \in v.tried)
<1>s. /\ sub[s] \in SubState
      /\ sub[s].pc \in Occupied => sub[s].acc \in sub[s].tried
      /\ sub[s].pc \in Occupied => sub[s].acc \in Account
  BY DEF TypeInv, TypeOK, AccountChosen, SubState
<1>t. /\ row \in [Account -> Row] /\ steady \in [Submission -> SUBSET Account]
      /\ cursor \in [Prio -> Nat]
      /\ lock \in [Account -> Submission \cup {Nobody}]
      /\ client \in [Account -> [gen : Nat, cached : BOOLEAN]]
      /\ cooling \subseteq Account \X Nat
      /\ today \in Date
      /\ sub \in [Submission -> SubState]
      /\ TypeOK
  BY DEF TypeInv, TypeOK, Date
<1>d. NoDate \in Date
  BY DEF Date
<1>1. CASE Submit(s)
  <2>1. Good([sub[s] EXCEPT !.pc = "begin"])
    BY <1>s DEF SubState, PC, Occupied
  <2>2. steady' \in [Submission -> SUBSET Account]
    BY <1>1, <1>t DEF Submit, ServiceableAccounts
  <2> QED
    BY <1>1, <1>t, <2>1, <2>2, SubWritten, Pieces DEF Submit, Move, memory
<1>2. CASE CaptureDay(s)
  <2>1. Good([sub[s] EXCEPT !.pc = "reset", !.day = today])
    BY <1>s, <1>t DEF SubState, PC, Occupied
  <2> QED
    BY <1>2, <1>t, <2>1, SubWritten, Pieces DEF CaptureDay, memory, table
<1>3. CASE ResetQuotas(s)
  <2>1. row' \in [Account -> Row] /\ steady' \in [Submission -> SUBSET Account]
    BY <1>3, <1>s, <1>t, RowsReset, TableWritten DEF ResetQuotas, SubState
  <2>2. Good([sub[s] EXCEPT !.pc = "list", !.day = NoDate])
    BY <1>s, <1>d DEF SubState, PC, Occupied
  <2> QED
    BY <1>3, <1>t, <2>1, <2>2, SubWritten, Pieces DEF ResetQuotas, memory
<1>r. ASSUME NEW r \in Result, Return(s, r)
      PROVE  sub' \in [Submission -> SubState] /\ AccountChosen'
  <2>1. Good([sub[s] EXCEPT !.pc = "done", !.gen = 0, !.result = r])
    BY <1>s DEF SubState, PC, Occupied
  <2> QED
    BY <1>r, <2>1, SubWritten DEF Return
<1>4. CASE GiveUp(s)
  <2>1. GiveUpWith(s) \in Result
    BY DEF GiveUpWith, Result
  <2> QED
    BY <1>4, <1>t, <1>r, <2>1, Pieces DEF GiveUp, memory, table
<1>5. ASSUME NEW a \in Account, Select(s, a) PROVE TypeInv'
  <2>1. cursor' \in [Prio -> Nat]
    <3>1. \A p \in Prio : (cursor[p] + 1) % CursorMod \in Nat
      BY <1>t, SchedulerAssumption
    <3> QED
      BY <1>5, <1>t, <3>1 DEF Select, Turned
  <2>2. Good([sub[s] EXCEPT !.pc = "lock", !.acc = a, !.tried = sub[s].tried \cup {a}])
    BY <1>s DEF SubState, PC, Occupied
  <2>3. sub' = [sub EXCEPT ![s] =
                  [sub[s] EXCEPT !.pc = "lock", !.acc = a, !.tried = sub[s].tried \cup {a}]]
    BY <1>5 DEF Select
  <2>4. UNCHANGED <<table, lock, client, cooling, world>>
    BY <1>5 DEF Select
  <2> QED
    BY <1>t, <2>1, <2>2, <2>3, <2>4, SubWritten, Pieces DEF table
<1>6. CASE LockAccount(s)
  <2>1. Good([sub[s] EXCEPT !.pc = "client"])
    BY <1>6, <1>s DEF LockAccount, SubState, PC, Occupied
  <2>2. lock' \in [Account -> Submission \cup {Nobody}]
    BY <1>6, <1>t DEF LockAccount
  <2> QED
    BY <1>6, <1>t, <2>1, <2>2, SubWritten, Pieces DEF LockAccount, Move, table
<1>7. CASE GetClient(s)
  <2>0. sub[s].pc \in Occupied
    BY <1>7 DEF GetClient, Occupied
  <2>1. Built(sub[s].acc) \in [gen : Nat, cached : BOOLEAN]
    BY <2>0, <1>s, <1>t DEF Built
  <2>2. client' \in [Account -> [gen : Nat, cached : BOOLEAN]]
    BY <1>7, <1>t, <2>1 DEF GetClient
  <2>3. Good([sub[s] EXCEPT !.pc = "call", !.gen = Built(sub[s].acc).gen])
    BY <2>0, <2>1, <1>s DEF SubState, PC, Occupied
  <2> QED
    BY <1>7, <1>t, <2>2, <2>3, SubWritten, Pieces DEF GetClient, table
<1>8. CASE NoClient(s)
  <2>0. sub[s].acc \in Account
    BY <1>8, <1>s DEF NoClient, Occupied
  <2>1. Good([sub[s] EXCEPT !.pc = "begin", !.answer[sub[s].acc] = "noClient"])
    BY <2>0, <1>s DEF SubState, PC, Answer, Occupied
  <2>2. lock' \in [Account -> Submission \cup {Nobody}]
    BY <1>8, <1>t DEF NoClient
  <2> QED
    BY <1>8, <1>t, <2>1, <2>2, SubWritten, Pieces DEF NoClient, table
<1>9. ASSUME NEW o \in Answer, Answered(s, o)
      PROVE  /\ sub' \in [Submission -> SubState] /\ AccountChosen'
             /\ lock' \in [Account -> Submission \cup {Nobody}]
             /\ sub[s].acc \in Account
  <2> DEFINE k == IF RetryAfter(s, o) THEN sub[s].n + 1 ELSE 0
             p == IF RetryAfter(s, o) THEN "call" ELSE "answered"
  <2>0. sub[s].acc \in Account /\ sub[s].acc \in sub[s].tried
    BY <1>9, <1>s DEF Answered, Occupied
  <2>1. sub[s].n \in 0 .. Attempts - 1 /\ Attempts \in Nat \ {0}
    BY <1>s, SchedulerAssumption DEF SubState
  <2>2. k \in 0 .. Attempts - 1
    BY <2>1 DEF RetryAfter, Retries
  <2>3. p \in PC
    BY DEF PC
  <2>4. Heard(s, o) = [sub[s] EXCEPT !.pc = p, !.n = k, !.answer[sub[s].acc] = o]
    BY DEF Heard
  <2> HIDE DEF k, p
  <2>5. Good(Heard(s, o))
    <3> HIDE DEF Good
    <3>a. o \in Answer
      OBVIOUS
    <3>b. sub[s] \in SubState
      BY <1>s
    <3>c. [sub[s] EXCEPT !.pc = p, !.n = k, !.answer[sub[s].acc] = o] \in SubState
      BY <3>a, <3>b, <2>0, <2>2, <2>3, HeardShape
    <3>1. Heard(s, o) \in SubState
      BY <3>c, <2>4
    <3>2. Heard(s, o).acc = sub[s].acc /\ Heard(s, o).tried = sub[s].tried
      BY <2>4, <1>s DEF SubState
    <3> QED
      BY <3>1, <3>2, <2>0 DEF Good
  <2>6. sub' \in [Submission -> SubState] /\ AccountChosen'
    BY <1>9, <2>5, SubWritten DEF Answered
  <2>7. lock' \in [Account -> Submission \cup {Nobody}]
    BY <1>9, <1>t DEF Answered
  <2> QED
    BY <2>0, <2>6, <2>7
<1>10. CASE RefuseLocally(s)
  <2>1. "cooling" \in Answer
    BY DEF Answer
  <2> QED
    BY <1>10, <1>9, <1>t, <2>1, Pieces DEF RefuseLocally, table
<1>11. ASSUME NEW o \in Answers, Reply(s, o) PROVE TypeInv'
  <2>1. o \in Answer
    BY SchedulerAssumption DEF Answer
  <2>2. cooling' \subseteq Account \X Nat
    BY <1>11, <1>9, <1>s, <1>t, <2>1 DEF Reply, SubState
  <2> QED
    BY <1>11, <1>9, <1>t, <2>1, <2>2, Pieces DEF Reply, table
<1>12. CASE CaptureWriteDay(s)
  <2>1. Good([sub[s] EXCEPT !.pc = "write", !.day = today])
    BY <1>12, <1>s, <1>t DEF CaptureWriteDay, SubState, PC, Occupied
  <2> QED
    BY <1>12, <1>t, <2>1, SubWritten, Pieces DEF CaptureWriteDay, memory, table
<1>13. CASE CountTask(s)
  <2>1. row[sub[s].acc] \in Row /\ sub[s].day \in Date /\ sub[s].acc \in Account
    BY <1>13, <1>s, <1>t DEF CountTask, SubState, Occupied
  <2>2. TaskCounted(row[sub[s].acc], sub[s].day) \in Row
    BY <2>1, RowFunctions DEF Status
  <2>3. row' \in [Account -> Row] /\ steady' \in [Submission -> SUBSET Account]
    BY <1>13, <1>t, <2>1, <2>2, RowWritten DEF CountTask
  <2>4. Good([sub[s] EXCEPT !.pc = "done", !.gen = 0, !.result = "ok"])
    BY <1>s, <1>d DEF SubState, PC, Result, Occupied
  <2> QED
    BY <1>13, <1>t, <2>3, <2>4, SubWritten, Pieces DEF CountTask, memory
<1>c. ASSUME Continue(s)
      PROVE  sub' \in [Submission -> SubState] /\ AccountChosen'
  <2>1. Good([sub[s] EXCEPT !.pc = "begin", !.gen = 0, !.day = NoDate])
    BY <1>s, <1>d DEF SubState, PC, Occupied
  <2> QED
    BY <1>c, <2>1, SubWritten DEF Continue
<1>14. CASE MarkExhausted(s)
  <2>1. row[sub[s].acc] \in Row /\ sub[s].day \in Date /\ sub[s].acc \in Account
    BY <1>14, <1>s, <1>t DEF MarkExhausted, SubState, Occupied
  <2>2. Exhausted(row[sub[s].acc], sub[s].day) \in Row
    BY <2>1, RowFunctions DEF Status
  <2>3. row' \in [Account -> Row] /\ steady' \in [Submission -> SUBSET Account]
    BY <1>14, <1>t, <2>1, <2>2, RowWritten DEF MarkExhausted
  <2> QED
    BY <1>14, <1>t, <1>c, <2>3, Pieces DEF MarkExhausted, memory
<1>15. CASE CoolDown(s)
  <2>1. cooling' \subseteq Account \X Nat
    BY <1>15, <1>s, <1>t DEF CoolDown, SubState, Occupied
  <2> QED
    BY <1>15, <1>t, <1>c, <2>1, Pieces DEF CoolDown, table
<1>16. CASE MarkFailed(s)
  <2>1. row[sub[s].acc] \in Row /\ sub[s].acc \in Account
    BY <1>16, <1>s, <1>t DEF MarkFailed, Occupied
  <2>2. Failed(row[sub[s].acc], FailedStatus(s)) \in Row
    BY <2>1, <1>d, RowFunctions DEF Status, FailedStatus
  <2>3. row' \in [Account -> Row] /\ steady' \in [Submission -> SUBSET Account]
    BY <1>16, <1>t, <2>1, <2>2, RowWritten DEF MarkFailed
  <2> QED
    BY <1>16, <1>t, <1>c, <2>3, Pieces DEF MarkFailed, memory
<1>17. CASE FailOver(s)
  BY <1>17, <1>t, <1>c, Pieces DEF FailOver, memory, table
<1>18. CASE Fail(s)
  <2>1. "failed" \in Result
    BY DEF Result
  <2> QED
    BY <1>18, <1>t, <1>r, <2>1, Pieces DEF Fail, memory, table
<1> QED
  BY <1>1, <1>2, <1>3, <1>4, <1>5, <1>6, <1>7, <1>8, <1>10, <1>11, <1>12,
     <1>13, <1>14, <1>15, <1>16, <1>17, <1>18 DEF Work

\* Everything else that may happen.
Elsewhere ==
    \/ Tick \/ TickReset \/ Midnight
    \/ \E c \in cooling : CooldownEnds(c)
    \/ \E a \in Account : Operate(a)
    \/ UpdateSettings
    \/ Restart

\* A step of anything but a submission keeps the type invariant if each of the
\* variables it writes stays in its domain.
LEMMA OtherPieces ==
    ASSUME TypeInv, sub' = sub,
           row' \in [Account -> Row], steady' \in [Submission -> SUBSET Account],
           UNCHANGED <<cursor, lock>>,
           client' \in [Account -> [gen : Nat, cached : BOOLEAN]],
           cooling' \subseteq Account \X Nat,
           today' \in Day, balancing' \in BOOLEAN, deleting' \subseteq Account,
           ticker' \in Date, events' \in Nat
    PROVE  TypeInv'
  BY DEF TypeInv, TypeOK, AccountChosen

\* The tickers, the operator's API and a restart keep the type invariant.
LEMMA ElsewhereTypes ==
    ASSUME TypeInv, Elsewhere
    PROVE  TypeInv'
<1>t. /\ row \in [Account -> Row] /\ steady \in [Submission -> SUBSET Account]
      /\ cursor \in [Prio -> Nat]
      /\ lock \in [Account -> Submission \cup {Nobody}]
      /\ client \in [Account -> [gen : Nat, cached : BOOLEAN]]
      /\ cooling \subseteq Account \X Nat
      /\ today \in Day /\ balancing \in BOOLEAN /\ deleting \subseteq Account
      /\ ticker \in Date /\ events \in Nat
      /\ sub \in [Submission -> SubState]
      /\ TypeOK
  BY DEF TypeInv, TypeOK
<1>d. NoDate \in Date /\ Day \subseteq Date
  BY DEF Date
<1>1. CASE Tick
  BY <1>1, <1>t, <1>d, OtherPieces DEF Tick, table, memory
<1>2. CASE TickReset
  <2>1. row' \in [Account -> Row] /\ steady' \in [Submission -> SUBSET Account]
    BY <1>2, <1>t, RowsReset, TableWritten DEF TickReset
  <2> QED
    BY <1>2, <2>1, <1>t, <1>d, OtherPieces DEF TickReset, memory
<1>3. CASE Midnight
  <2>1. today' \in Day
    BY <1>3, <1>t, PoolAssumption DEF Midnight, Day
  <2> QED
    BY <1>3, <2>1, <1>t, OtherPieces DEF Midnight, table, memory
<1>4. ASSUME NEW c \in cooling, CooldownEnds(c) PROVE TypeInv'
  BY <1>4, <1>t, OtherPieces DEF CooldownEnds, table, world
<1>e. Event => events' \in Nat
  BY <1>t DEF Event
<1>5. ASSUME NEW a \in Account, Operate(a) PROVE TypeInv'
  <2>r. row[a] \in Row
    BY <1>t
  <2>b. Built(a) \in [gen : Nat, cached : BOOLEAN]
    BY <1>t DEF Built
  <2>w. ASSUME NEW r \in Row, WriteRow(a, r)
        PROVE  row' \in [Account -> Row] /\ steady' \in [Submission -> SUBSET Account]
    BY <2>w, <1>t, RowWritten
  <2>f. /\ Failed(row[a], "AUTH_FAILED") \in Row
        /\ QuotaReset(row[a]) \in Row
    BY <2>r, <1>d, RowFunctions DEF Status
  <2>1. CASE CreateAccount(a)
    <3>1. PICK p \in Prio, e, bb \in BOOLEAN :
            WriteRow(a, [stored |-> "live", enabled |-> e, status |-> "HEALTHY",
                         lastDay |-> NoDate, exhaustedOn |-> NoDate,
                         count |-> 0, prio |-> p, free |-> 0, buildable |-> bb])
      BY <2>1 DEF CreateAccount
    <3>2. [stored |-> "live", enabled |-> e, status |-> "HEALTHY",
           lastDay |-> NoDate, exhaustedOn |-> NoDate,
           count |-> 0, prio |-> p, free |-> 0, buildable |-> bb] \in Row
      BY <1>d, PoolAssumption DEF Row, Status
    <3>3. row' \in [Account -> Row] /\ steady' \in [Submission -> SUBSET Account]
      BY <3>1, <3>2, <2>w
    <3> QED
      BY <2>1, <3>3, <1>t, <1>e, OtherPieces DEF CreateAccount, memory
  <2>2. CASE UpdateAccount(a)
    <3>1. PICK p \in Prio, e, bb \in BOOLEAN :
            WriteRow(a, [row[a] EXCEPT !.prio = p, !.enabled = e, !.buildable = bb])
      BY <2>2 DEF UpdateAccount
    <3>2. [row[a] EXCEPT !.prio = p, !.enabled = e, !.buildable = bb] \in Row
      BY <2>r DEF Row
    <3>3. row' \in [Account -> Row] /\ steady' \in [Submission -> SUBSET Account]
      BY <3>1, <3>2, <2>w
    <3>4. client' \in [Account -> [gen : Nat, cached : BOOLEAN]]
      BY <2>2, <1>t DEF UpdateAccount
    <3> QED
      BY <2>2, <3>3, <3>4, <1>t, <1>e, OtherPieces DEF UpdateAccount
  <2>3. CASE DeleteAccount(a)
    <3>1. client' \in [Account -> [gen : Nat, cached : BOOLEAN]]
      BY <2>3, <1>t DEF DeleteAccount
    <3> QED
      BY <2>3, <3>1, <1>t, <1>e, OtherPieces DEF DeleteAccount, table
  <2>4. CASE DeleteRow(a)
    <3>1. WhereLive(row[a], [row[a] EXCEPT !.stored = "deleted"]) \in Row
      BY <2>r DEF Row, WhereLive
    <3>2. row' \in [Account -> Row] /\ steady' \in [Submission -> SUBSET Account]
      BY <2>4, <3>1, <2>w DEF DeleteRow
    <3> QED
      BY <2>4, <3>2, <1>t, OtherPieces DEF DeleteRow, memory
  <2>5. CASE ResetQuota(a)
    <3>1. row' \in [Account -> Row] /\ steady' \in [Submission -> SUBSET Account]
      BY <2>5, <2>f, <2>w DEF ResetQuota
    <3> QED
      BY <2>5, <3>1, <1>t, <1>e, OtherPieces DEF ResetQuota, memory
  <2>c. client' = [client EXCEPT ![a] = Built(a)]
          => client' \in [Account -> [gen : Nat, cached : BOOLEAN]]
    BY <1>t, <2>b
  <2>6. CASE TestAccount(a)
    <3>1. ASSUME NEW f \in Space \cup {row[a].free}
          PROVE  WhereLive(row[a], [row[a] EXCEPT !.status = "HEALTHY", !.free = f]) \in Row
      BY <2>r DEF Row, WhereLive, Status
    <3>2. row' \in [Account -> Row] /\ steady' \in [Submission -> SUBSET Account]
      BY <2>6, <3>1, <2>f, <2>w DEF TestAccount
    <3> QED
      BY <2>6, <2>c, <3>2, <1>t, <1>e, OtherPieces DEF TestAccount
  <2>7. CASE SyncAccountStorage(a)
    <3>1. ASSUME NEW f \in Space
          PROVE  WhereLive(row[a], [row[a] EXCEPT !.free = f]) \in Row
      BY <2>r DEF Row, WhereLive
    <3>2. row' \in [Account -> Row] /\ steady' \in [Submission -> SUBSET Account]
      BY <2>7, <3>1, <2>w DEF SyncAccountStorage
    <3> QED
      BY <2>7, <2>c, <3>2, <1>t, <1>e, OtherPieces DEF SyncAccountStorage
  <2>8. CASE InitializeAccount(a)
    <3>1. ASSUME NEW f \in Space \cup {row[a].free}
          PROVE  WhereLive(row[a], [QuotaReset(row[a]) EXCEPT !.free = f]) \in Row
      BY <2>r, <2>f DEF Row, WhereLive
    <3>2. row' \in [Account -> Row] /\ steady' \in [Submission -> SUBSET Account]
      BY <2>8, <3>1, <2>w DEF InitializeAccount
    <3> QED
      BY <2>8, <2>c, <3>2, <1>t, <1>e, OtherPieces DEF InitializeAccount
  <2>9. CASE OtherTraffic429(a)
    <3>1. cooling' \subseteq Account \X Nat
      BY <2>9, <1>t DEF OtherTraffic429
    <3> QED
      BY <2>9, <3>1, <1>t, <1>e, OtherPieces DEF OtherTraffic429, table
  <2> QED
    BY <1>5, <2>1, <2>2, <2>3, <2>4, <2>5, <2>6, <2>7, <2>8, <2>9 DEF Operate
<1>6. CASE UpdateSettings
  BY <1>6, <1>t, <1>e, OtherPieces DEF UpdateSettings, table, memory
<1>7. CASE Restart
  <2>1. ASSUME NEW s \in Submission
        PROVE  /\ sub'[s] \in SubState
               /\ sub'[s].pc \in Occupied => sub'[s].acc \in sub'[s].tried
    <3>1. [sub[s] EXCEPT !.pc = "done", !.gen = 0, !.n = 0, !.day = NoDate,
                         !.result = "lost"] \in SubState
      <4>1. 0 \in 0 .. Attempts - 1 /\ 0 \in Nat
        BY SchedulerAssumption
      <4>2. "done" \in PC /\ "lost" \in Result
        BY DEF PC, Result
      <4>3. sub[s] \in SubState
        BY <1>t
      <4> QED
        BY <4>1, <4>2, <4>3, <1>d DEF SubState
    <3>2. [sub[s] EXCEPT !.pc = "done", !.gen = 0, !.n = 0, !.day = NoDate,
                         !.result = "lost"].pc = "done"
      BY <1>t DEF SubState
    <3>3. CASE sub[s].pc \in {"idle", "done"}
      BY <1>7, <3>3, <1>t DEF Restart, Occupied
    <3>4. CASE sub[s].pc \notin {"idle", "done"}
      <4>1. sub'[s] = [sub[s] EXCEPT !.pc = "done", !.gen = 0, !.n = 0,
                                      !.day = NoDate, !.result = "lost"]
        BY <1>7, <3>4 DEF Restart
      <4> QED
        BY <4>1, <3>1, <3>2 DEF Occupied
    <3> QED
      BY <3>3, <3>4
  <2>2. sub' \in [Submission -> SubState] /\ AccountChosen'
    <3>1. sub' = [s \in Submission |-> sub'[s]]
      BY <1>7 DEF Restart
    <3> QED
      BY <2>1, <3>1 DEF AccountChosen
  <2>3. client' \in [Account -> [gen : Nat, cached : BOOLEAN]]
    BY <1>7, <1>t DEF Restart
  <2>4. /\ cursor' \in [Prio -> Nat]
        /\ lock' \in [Account -> Submission \cup {Nobody}]
        /\ cooling' \subseteq Account \X Nat /\ deleting' \subseteq Account
        /\ ticker' \in Date
    BY <1>7, <1>d DEF Restart
  <2>5. UNCHANGED <<row, steady, today, balancing>> /\ events' \in Nat
    BY <1>7, <1>e DEF Restart, table
  <2> QED
    BY <2>2, <2>3, <2>4, <2>5, <1>t DEF TypeInv, TypeOK
<1> QED
  BY <1>1, <1>2, <1>3, <1>4, <1>5, <1>6, <1>7 DEF Elsewhere

\* A step is one of a submission or one from elsewhere.
LEMMA NextCases ==
    Next <=> (\E s \in Submission : Submit(s) \/ Work(s)) \/ Elsewhere
  BY DEF Next, Elsewhere

\* The type invariant is inductive.
LEMMA TypeInvStep == TypeInv /\ [Next]_vars => TypeInv'
<1> SUFFICES ASSUME TypeInv, [Next]_vars PROVE TypeInv'
  OBVIOUS
<1>1. CASE UNCHANGED vars
  BY <1>1 DEF TypeInv, TypeOK, AccountChosen, vars
<1>2. CASE Next
  BY <1>2, NextCases, SubmissionTypes, ElsewhereTypes
<1> QED
  BY <1>1, <1>2

\* Whatever the operator, the ticker and the restarts do, every variable stays
\* in its domain, and a submission past the selection works on an account that
\* it has put in its attempted set.
THEOREM TypeCorrect == Spec => [](TypeOK /\ AccountChosen)
<1>1. Init => TypeInv
  BY InitTypeInv
<1>2. TypeInv /\ [Next]_vars => TypeInv'
  BY TypeInvStep
<1>3. TypeInv <=> TypeOK /\ AccountChosen
  BY DEF TypeInv
<1> QED
  BY <1>1, <1>2, <1>3, PTL DEF Spec

(***************************************************************************)
(* What a submission remembers.  Every answer belongs to a tried account;  *)
(* the account at hand has no answer before it is called, and at most a    *)
(* network error between two calls; a success is the last answer there is. *)
(***************************************************************************)
Sound(v) ==
    /\ \A a \in Account : v.answer[a] # "none" => a \in v.tried
    /\ v.pc \in {"lock", "client"} => v.answer[v.acc] = "none"
    /\ v.pc = "call" => v.answer[v.acc] \in {"none", "network"}
    /\ \A a \in Account : v.answer[a] = "ok" =>
         /\ a = v.acc
         /\ \/ v.pc \in {"answered", "write"}
            \/ v.pc = "done" /\ v.result \in {"ok", "lost"}
    /\ v.pc # "done" => v.result = "none"
    /\ v.result = "ok" => v.acc \in Account /\ v.answer[v.acc] = "ok"

SoundInv == \A s \in Submission : Sound(sub[s])

\* At the start no submission has heard anything.
LEMMA InitSound == Init => SoundInv
  BY DEF Init, SoundInv, Sound, NewSub

\* A step that leaves one submission sound leaves all of them sound.
LEMMA SoundWritten ==
    ASSUME TypeInv, SoundInv, NEW s \in Submission, NEW v, Sound(v),
           sub' = [sub EXCEPT ![s] = v]
    PROVE  SoundInv'
  BY DEF TypeInv, TypeOK, SoundInv

\* Every step of a submission keeps its tried accounts, its answers and its
\* result consistent.
LEMMA SubmissionSound ==
    ASSUME TypeInv, SoundInv, NEW s \in Submission, Submit(s) \/ Work(s)
    PROVE  SoundInv'
<1>s. /\ sub[s] \in SubState
      /\ sub[s].pc \in Occupied => sub[s].acc \in sub[s].tried /\ sub[s].acc \in Account
      /\ Sound(sub[s])
  BY DEF TypeInv, TypeOK, AccountChosen, SoundInv, SubState
<1>m. ASSUME NEW p \in {"begin", "reset", "list", "client"}, NEW d, NEW g,
             sub[s].pc \notin {"done", "answered", "write"}, p = "client" => sub[s].pc = "lock"
      PROVE  /\ Sound([sub[s] EXCEPT !.pc = p])
             /\ Sound([sub[s] EXCEPT !.pc = p, !.day = d])
             /\ Sound([sub[s] EXCEPT !.pc = p, !.gen = g, !.day = d])
  BY <1>m, <1>s DEF Sound, SubState
<1>1. CASE Submit(s)
  BY <1>1, <1>m, SoundWritten DEF Submit, Move
<1>2. CASE CaptureDay(s)
  BY <1>2, <1>m, SoundWritten DEF CaptureDay
<1>3. CASE ResetQuotas(s)
  BY <1>3, <1>m, SoundWritten DEF ResetQuotas
<1>r. ASSUME NEW r \in Result \ {"ok"}, Return(s, r), sub[s].pc # "done",
             sub[s].pc \in Occupied => LastAnswer(s) # "ok"
      PROVE  SoundInv'
  <2>1. Sound([sub[s] EXCEPT !.pc = "done", !.gen = 0, !.result = r])
    BY <1>r, <1>s DEF Sound, SubState, LastAnswer, Occupied
  <2> QED
    BY <1>r, <2>1, SoundWritten DEF Return
<1>4. CASE GiveUp(s)
  <2>1. GiveUpWith(s) \in Result \ {"ok"}
    BY DEF GiveUpWith, Result
  <2> QED
    BY <1>4, <1>r, <2>1 DEF GiveUp, Occupied
<1>5. ASSUME NEW a \in Account, Select(s, a) PROVE SoundInv'
  <2>1. sub' = [sub EXCEPT ![s] =
                  [sub[s] EXCEPT !.pc = "lock", !.acc = a, !.tried = sub[s].tried \cup {a}]]
    BY <1>5 DEF Select
  <2>2. sub[s].pc = "list" /\ a \notin sub[s].tried
    BY <1>5 DEF Select, Rotation, MostFree, TopPriority, Preferred, Roomy, Candidates
  <2>3. Sound([sub[s] EXCEPT !.pc = "lock", !.acc = a, !.tried = sub[s].tried \cup {a}])
    BY <2>2, <1>s DEF Sound, SubState
  <2> QED
    BY <2>1, <2>3, SoundWritten
<1>6. CASE LockAccount(s)
  BY <1>6, <1>m, SoundWritten DEF LockAccount, Move
<1>7. CASE GetClient(s)
  <2>1. Sound([sub[s] EXCEPT !.pc = "call", !.gen = Built(sub[s].acc).gen])
    BY <1>7, <1>s DEF GetClient, Sound, SubState
  <2> QED
    BY <1>7, <2>1, SoundWritten DEF GetClient
<1>8. CASE NoClient(s)
  <2>1. Sound([sub[s] EXCEPT !.pc = "begin", !.answer[sub[s].acc] = "noClient"])
    BY <1>8, <1>s DEF NoClient, Sound, SubState, Occupied
  <2> QED
    BY <1>8, <2>1, SoundWritten DEF NoClient
<1>9. ASSUME NEW o \in Answer, Answered(s, o), o # "none" PROVE SoundInv'
  <2> DEFINE again == RetryAfter(s, o)
             k == IF again THEN sub[s].n + 1 ELSE 0
             p == IF again THEN "call" ELSE "answered"
  <2>1. Heard(s, o) = [sub[s] EXCEPT !.pc = p, !.n = k, !.answer[sub[s].acc] = o]
    BY DEF Heard
  <2>2. p = "call" => o = "network"
    BY DEF RetryAfter
  <2>3. p \in {"call", "answered"}
    OBVIOUS
  <2>4. sub[s].pc = "call"
    BY <1>9 DEF Answered
  <2> HIDE DEF k, p
  <2>5. Sound(Heard(s, o))
    BY <1>9, <2>1, <2>2, <2>3, <2>4, <1>s DEF Sound, SubState, Occupied
  <2> QED
    BY <1>9, <2>5, SoundWritten DEF Answered
<1>10. CASE RefuseLocally(s)
  BY <1>10, <1>9 DEF RefuseLocally, Answer
<1>11. ASSUME NEW o \in Answers, Reply(s, o) PROVE SoundInv'
  <2>1. o \in Answer /\ o # "none"
    BY SchedulerAssumption DEF Answer
  <2> QED
    BY <1>11, <1>9, <2>1 DEF Reply
<1>12. CASE CaptureWriteDay(s)
  <2>1. Sound([sub[s] EXCEPT !.pc = "write", !.day = today])
    BY <1>12, <1>s DEF CaptureWriteDay, Sound, SubState
  <2> QED
    BY <1>12, <2>1, SoundWritten DEF CaptureWriteDay
<1>13. CASE CountTask(s)
  <2>1. Sound([sub[s] EXCEPT !.pc = "done", !.gen = 0, !.result = "ok"])
    BY <1>13, <1>s DEF CountTask, LastAnswer, Sound, SubState, Occupied
  <2> QED
    BY <1>13, <2>1, SoundWritten DEF CountTask
<1>c. ASSUME Continue(s), sub[s].pc \in {"answered", "write"}, LastAnswer(s) # "ok"
      PROVE  SoundInv'
  <2>1. Sound([sub[s] EXCEPT !.pc = "begin", !.gen = 0, !.day = NoDate])
    BY <1>c, <1>s DEF LastAnswer, Sound, SubState, Occupied
  <2> QED
    BY <1>c, <2>1, SoundWritten DEF Continue
<1>14. CASE MarkExhausted(s)
  BY <1>14, <1>c DEF MarkExhausted
<1>15. CASE CoolDown(s)
  BY <1>15, <1>c DEF CoolDown
<1>16. CASE MarkFailed(s)
  BY <1>16, <1>c DEF MarkFailed
<1>17. CASE FailOver(s)
  BY <1>17, <1>c DEF FailOver
<1>18. CASE Fail(s)
  <2>1. "failed" \in Result \ {"ok"}
    BY DEF Result
  <2> QED
    BY <1>18, <1>r, <2>1 DEF Fail, Occupied
<1> QED
  BY <1>1, <1>2, <1>3, <1>4, <1>5, <1>6, <1>7, <1>8, <1>10, <1>11, <1>12,
     <1>13, <1>14, <1>15, <1>16, <1>17, <1>18 DEF Work

\* Only a restart touches a submission from outside, and it ends it as lost.
LEMMA ElsewhereSub ==
    ASSUME TypeInv, Elsewhere
    PROVE  \/ sub' = sub /\ lock' = lock
           \/ Restart
  BY DEF Elsewhere, Operate, Tick, TickReset, Midnight, CooldownEnds, UpdateSettings,
         CreateAccount, UpdateAccount, DeleteAccount, DeleteRow, ResetQuota,
         TestAccount, SyncAccountStorage, InitializeAccount, OtherTraffic429, memory

\* A restart ends a submission under way as lost and changes no other.
LEMMA RestartSub ==
    ASSUME TypeInv, Restart, NEW s \in Submission
    PROVE  IF sub[s].pc \in {"idle", "done"} THEN sub'[s] = sub[s]
           ELSE sub'[s] = [sub[s] EXCEPT !.pc = "done", !.gen = 0, !.n = 0,
                                         !.day = NoDate, !.result = "lost"]
  BY DEF Restart

\* Nothing outside a submission disturbs what it has tried and heard.
LEMMA ElsewhereSound ==
    ASSUME TypeInv, SoundInv, Elsewhere
    PROVE  SoundInv'
<1>1. CASE sub' = sub
  BY <1>1 DEF SoundInv
<1>2. CASE Restart
  <2> SUFFICES ASSUME NEW s \in Submission PROVE Sound(sub'[s])
    BY DEF SoundInv
  <2>1. sub[s] \in SubState /\ Sound(sub[s])
    BY DEF TypeInv, TypeOK, SoundInv
  <2>2. Sound([sub[s] EXCEPT !.pc = "done", !.gen = 0, !.n = 0,
                             !.day = NoDate, !.result = "lost"])
    BY <2>1 DEF Sound, SubState
  <2> QED
    BY <1>2, <2>1, <2>2, RestartSub
<1> QED
  BY <1>1, <1>2, ElsewhereSub

\* The soundness of submissions is inductive relative to the type invariant.
LEMMA SoundStep == TypeInv /\ SoundInv /\ [Next]_vars => SoundInv'
<1> SUFFICES ASSUME TypeInv, SoundInv, [Next]_vars PROVE SoundInv'
  OBVIOUS
<1>1. CASE UNCHANGED vars
  BY <1>1 DEF SoundInv, vars
<1>2. CASE Next
  BY <1>2, NextCases, SubmissionSound, ElsewhereSound
<1> QED
  BY <1>1, <1>2

\* The two invariants the theorems below rest on hold throughout.
LEMMA SpecSound == Spec => [](TypeInv /\ SoundInv)
<1>1. Init => TypeInv /\ SoundInv
  BY InitTypeInv, InitSound
<1>2. TypeInv /\ SoundInv /\ [Next]_vars => (TypeInv /\ SoundInv)'
  BY TypeInvStep, SoundStep
<1> QED
  BY <1>1, <1>2, PTL DEF Spec

\* A task that PikPak acknowledged is always reported with its account, is
\* never followed by another attempt, and nothing else is reported as success.
THEOREM AcknowledgedTaskIsReturned == Spec => []AcknowledgedTaskReturned
<1>1. TypeInv /\ SoundInv => AcknowledgedTaskReturned
  BY DEF SoundInv, Sound, AcknowledgedTaskReturned
<1> QED
  BY <1>1, SpecSound, PTL

\* A submission never selects an account that has already answered it.
THEOREM NoSecondVisit == Spec => OneVisitPerAccount
<1> DEFINE A == \A s \in Submission : Visit(s) => sub[s].answer[sub'[s].acc] = "none"
<1>1. TypeInv /\ SoundInv /\ [Next]_vars => [A]_vars
  <2> SUFFICES ASSUME TypeInv, SoundInv, Next,
                      NEW s \in Submission, Visit(s)
               PROVE  sub[s].answer[sub'[s].acc] = "none"
    BY DEF vars
  <2>s. sub[s] \in SubState /\ sub \in [Submission -> SubState] /\ Sound(sub[s])
    BY DEF TypeInv, TypeOK, SoundInv
  <2>1. sub[s].pc = "list" /\ sub'[s].pc = "lock"
    BY DEF Visit
  <2>2. ~ Elsewhere
    <3>1. sub' # sub
      BY <2>1
    <3>2. ~ Restart
      <4>1. [sub[s] EXCEPT !.pc = "done", !.gen = 0, !.n = 0, !.day = NoDate,
                           !.result = "lost"].pc = "done"
        BY <2>s DEF SubState
      <4> QED
        BY <2>1, <4>1, RestartSub
    <3> QED
      BY <3>1, <3>2, ElsewhereSub
  <2>3. PICK t \in Submission : Submit(t) \/ Work(t)
    BY <2>2, NextCases
  <2>4. t = s
    BY <2>1, <2>3, <2>s DEF Submit, Work, CaptureDay, ResetQuotas, GiveUp, Select,
       LockAccount, GetClient, NoClient, RefuseLocally, Reply, Answered,
       CaptureWriteDay, CountTask, MarkExhausted, CoolDown, MarkFailed, FailOver,
       Fail, Move, Return, Continue
  <2>5. GiveUp(s) \/ \E a \in Account : Select(s, a)
    BY <2>1, <2>3, <2>4 DEF Submit, Work, CaptureDay, ResetQuotas, LockAccount,
       GetClient, NoClient, RefuseLocally, Reply, Answered, CaptureWriteDay, CountTask,
       MarkExhausted, CoolDown, MarkFailed, FailOver, Fail
  <2>6. ~ GiveUp(s)
    <3>1. [sub[s] EXCEPT !.pc = "done", !.gen = 0, !.result = GiveUpWith(s)].pc = "done"
      BY <2>s DEF SubState
    <3> QED
      BY <2>1, <2>s, <3>1 DEF GiveUp, Return
  <2>7. PICK a \in Account : Select(s, a)
    BY <2>5, <2>6
  <2>8. a \notin sub[s].tried
    BY <2>7 DEF Select, Rotation, MostFree, TopPriority, Preferred, Roomy, Candidates
  <2>9. sub'[s].acc = a
    <3>1. sub' = [sub EXCEPT ![s] =
                   [sub[s] EXCEPT !.pc = "lock", !.acc = a, !.tried = sub[s].tried \cup {a}]]
      BY <2>7 DEF Select
    <3> QED
      BY <3>1, <2>s DEF SubState
  <2> QED
    BY <2>8, <2>9, <2>s DEF Sound
<1> QED
  BY <1>1, SpecSound, PTL DEF Spec, OneVisitPerAccount

(***************************************************************************)
(* The account locks                                                       *)
(***************************************************************************)
\* At the start every account lock is free.
LEMMA InitLocks == Init => LockGuardsAccount
  BY SchedulerAssumption DEF Init, LockGuardsAccount, NewSub, Holding

\* A step of s may leave the lock of its account alone, or take it, or free it.
LEMMA LockKept ==
    ASSUME TypeInv, LockGuardsAccount, NEW s \in Submission, NEW v \in SubState,
           sub' = [sub EXCEPT ![s] = v], lock' = lock,
           v.pc \in Holding <=> sub[s].pc \in Holding,
           v.pc \in Holding => v.acc = sub[s].acc
    PROVE  LockGuardsAccount'
  BY DEF TypeInv, TypeOK, LockGuardsAccount

\* Taking a free lock on the way into an attempt.
LEMMA LockTaken ==
    ASSUME TypeInv, LockGuardsAccount, NEW s \in Submission, NEW v \in SubState,
           sub' = [sub EXCEPT ![s] = v], sub[s].acc \in Account,
           lock[sub[s].acc] = Nobody, lock' = [lock EXCEPT ![sub[s].acc] = s],
           sub[s].pc \notin Holding, v.pc \in Holding, v.acc = sub[s].acc
    PROVE  LockGuardsAccount'
  BY SchedulerAssumption DEF TypeInv, TypeOK, LockGuardsAccount

\* Giving the lock back on the way out of an attempt.
LEMMA LockFreed ==
    ASSUME TypeInv, LockGuardsAccount, NEW s \in Submission, NEW v \in SubState,
           sub' = [sub EXCEPT ![s] = v], sub[s].acc \in Account,
           lock' = [lock EXCEPT ![sub[s].acc] = Nobody],
           sub[s].pc \in Holding, v.pc \notin Holding
    PROVE  LockGuardsAccount'
  BY SchedulerAssumption DEF TypeInv, TypeOK, LockGuardsAccount

\* Every step of a submission keeps the locks with their owners.
LEMMA SubmissionLocks ==
    ASSUME TypeInv, LockGuardsAccount, NEW s \in Submission, Submit(s) \/ Work(s)
    PROVE  LockGuardsAccount'
<1>s. /\ sub[s] \in SubState
      /\ sub[s].pc \in Occupied => sub[s].acc \in Account
      /\ sub' \in [Submission -> SubState]
      /\ sub \in [Submission -> SubState]
  BY SubmissionTypes DEF TypeInv, TypeOK, AccountChosen, SubState
<1>v. \A v : sub' = [sub EXCEPT ![s] = v] => v \in SubState
  BY <1>s
\* Steps outside the locked region.
<1>o. ASSUME lock' = lock, sub[s].pc \notin Holding,
             NEW v, sub' = [sub EXCEPT ![s] = v], v.pc \notin Holding
      PROVE  LockGuardsAccount'
  BY <1>o, <1>v, LockKept
<1>m. ASSUME NEW p \in {"begin", "reset", "list"}, NEW d, NEW g
      PROVE  /\ [sub[s] EXCEPT !.pc = p].pc \notin Holding
             /\ [sub[s] EXCEPT !.pc = p, !.day = d].pc \notin Holding
             /\ [sub[s] EXCEPT !.pc = p, !.gen = g, !.day = d].pc \notin Holding
  BY <1>s DEF Holding, SubState
<1>1. CASE Submit(s)
  BY <1>1, <1>m, <1>o DEF Submit, Move, memory, Holding
<1>2. CASE CaptureDay(s)
  BY <1>2, <1>m, <1>o DEF CaptureDay, memory, Holding
<1>3. CASE ResetQuotas(s)
  BY <1>3, <1>m, <1>o DEF ResetQuotas, memory, Holding
<1>r. ASSUME NEW r, Return(s, r), lock' = lock, sub[s].pc \notin Holding
      PROVE  LockGuardsAccount'
  <2>1. [sub[s] EXCEPT !.pc = "done", !.gen = 0, !.result = r].pc \notin Holding
    BY <1>s DEF SubState, Holding
  <2> QED
    BY <1>r, <2>1, <1>o DEF Return
<1>4. CASE GiveUp(s)
  BY <1>4, <1>r DEF GiveUp, memory, Holding
<1>5. ASSUME NEW a \in Account, Select(s, a) PROVE LockGuardsAccount'
  <2>1. /\ sub' = [sub EXCEPT ![s] =
                     [sub[s] EXCEPT !.pc = "lock", !.acc = a, !.tried = sub[s].tried \cup {a}]]
        /\ lock' = lock /\ sub[s].pc \notin Holding
    BY <1>5 DEF Select, Holding
  <2>2. [sub[s] EXCEPT !.pc = "lock", !.acc = a, !.tried = sub[s].tried \cup {a}].pc
          \notin Holding
    BY <1>s DEF SubState, Holding
  <2> QED
    BY <2>1, <2>2, <1>o
<1>6. CASE LockAccount(s)
  <2>1. [sub[s] EXCEPT !.pc = "client"].pc \in Holding
    BY <1>s DEF SubState, Holding
  <2>2. [sub[s] EXCEPT !.pc = "client"].acc = sub[s].acc
    BY <1>s DEF SubState
  <2>3. sub[s].acc \in Account /\ sub[s].pc \notin Holding
    BY <1>6, <1>s DEF LockAccount, Occupied, Holding
  <2>4. sub' = [sub EXCEPT ![s] = [sub[s] EXCEPT !.pc = "client"]]
    BY <1>6 DEF LockAccount, Move
  <2> QED
    BY <1>6, <1>v, <2>1, <2>2, <2>3, <2>4, LockTaken DEF LockAccount
<1>7. CASE GetClient(s)
  <2> DEFINE v == [sub[s] EXCEPT !.pc = "call", !.gen = Built(sub[s].acc).gen]
  <2>1. v.pc \in Holding /\ v.acc = sub[s].acc
    BY <1>s DEF SubState, Holding
  <2>2. sub' = [sub EXCEPT ![s] = v] /\ lock' = lock /\ sub[s].pc \in Holding
    BY <1>7 DEF GetClient, Holding
  <2> HIDE DEF v
  <2> QED
    BY <1>v, <2>1, <2>2, LockKept
<1>8. CASE NoClient(s)
  <2> DEFINE v == [sub[s] EXCEPT !.pc = "begin", !.answer[sub[s].acc] = "noClient"]
  <2>1. v.pc \notin Holding
    BY <1>s DEF SubState, Holding
  <2>2. /\ sub' = [sub EXCEPT ![s] = v] /\ sub[s].pc \in Holding /\ sub[s].acc \in Account
        /\ lock' = [lock EXCEPT ![sub[s].acc] = Nobody]
    BY <1>8, <1>s DEF NoClient, Holding, Occupied
  <2> HIDE DEF v
  <2> QED
    BY <1>v, <2>1, <2>2, LockFreed
<1>9. ASSUME NEW o, Answered(s, o) PROVE LockGuardsAccount'
  <2>1. /\ sub' = [sub EXCEPT ![s] = Heard(s, o)]
        /\ sub[s].pc \in Holding /\ sub[s].acc \in Account
        /\ Heard(s, o) \in SubState
    BY <1>9, <1>s, <1>v DEF Answered, Holding, Occupied
  <2>2. Heard(s, o).acc = sub[s].acc
    BY <1>s DEF Heard, SubState
  <2>3. CASE RetryAfter(s, o)
    <3>1. Heard(s, o).pc \in Holding
      BY <2>3, <1>s DEF Heard, SubState, Holding
    <3> QED
      BY <1>9, <2>1, <2>2, <2>3, <3>1, LockKept DEF Answered
  <2>4. CASE ~ RetryAfter(s, o)
    <3>1. Heard(s, o).pc \notin Holding
      BY <2>4, <1>s DEF Heard, SubState, Holding
    <3> QED
      BY <1>9, <2>1, <2>4, <3>1, LockFreed DEF Answered
  <2> QED
    BY <2>3, <2>4
<1>10. CASE RefuseLocally(s)
  BY <1>10, <1>9 DEF RefuseLocally
<1>11. ASSUME NEW o \in Answers, Reply(s, o) PROVE LockGuardsAccount'
  BY <1>11, <1>9 DEF Reply
<1>12. CASE CaptureWriteDay(s)
  <2>1. [sub[s] EXCEPT !.pc = "write", !.day = today].pc \notin Holding
    BY <1>s DEF SubState, Holding
  <2> QED
    BY <1>12, <2>1, <1>o DEF CaptureWriteDay, memory, Holding
<1>13. CASE CountTask(s)
  <2>1. [sub[s] EXCEPT !.pc = "done", !.gen = 0, !.result = "ok"].pc
          \notin Holding
    BY <1>s DEF SubState, Holding
  <2> QED
    BY <1>13, <2>1, <1>o DEF CountTask, memory, Holding
<1>c. ASSUME Continue(s), lock' = lock, sub[s].pc \notin Holding
      PROVE  LockGuardsAccount'
  BY <1>c, <1>m, <1>o DEF Continue
<1>14. CASE MarkExhausted(s)
  BY <1>14, <1>c DEF MarkExhausted, memory, Holding
<1>15. CASE CoolDown(s)
  BY <1>15, <1>c DEF CoolDown, Holding
<1>16. CASE MarkFailed(s)
  BY <1>16, <1>c DEF MarkFailed, memory, Holding
<1>17. CASE FailOver(s)
  BY <1>17, <1>c DEF FailOver, memory, Holding
<1>18. CASE Fail(s)
  BY <1>18, <1>r DEF Fail, memory, Holding
<1> QED
  BY <1>1, <1>2, <1>3, <1>4, <1>5, <1>6, <1>7, <1>8, <1>10, <1>11, <1>12,
     <1>13, <1>14, <1>15, <1>16, <1>17, <1>18 DEF Work

\* Only a restart touches the locks from outside: it frees them all and ends
\* every attempt.
LEMMA ElsewhereLocks ==
    ASSUME TypeInv, LockGuardsAccount, Elsewhere
    PROVE  LockGuardsAccount'
<1>1. CASE sub' = sub /\ lock' = lock
  BY <1>1 DEF LockGuardsAccount
<1>2. CASE Restart
  <2>1. ASSUME NEW s \in Submission PROVE sub'[s].pc \notin Holding
    <3>1. sub[s] \in SubState
      BY DEF TypeInv, TypeOK
    <3>2. [sub[s] EXCEPT !.pc = "done", !.gen = 0, !.n = 0, !.day = NoDate,
                         !.result = "lost"].pc = "done"
      BY <3>1 DEF SubState
    <3> QED
      BY <1>2, <3>2, RestartSub DEF Holding
  <2>2. \A s \in Submission, a \in Account : lock'[a] # s
    BY <1>2, SchedulerAssumption DEF Restart
  <2> QED
    BY <2>1, <2>2 DEF LockGuardsAccount
<1> QED
  BY <1>1, <1>2, ElsewhereSub

\* An account lock is held exactly by the submission between Lock and Unlock,
\* even though operators delete accounts and the process restarts meanwhile.
THEOREM LocksGuardAccounts == Spec => []LockGuardsAccount
<1>1. TypeInv /\ LockGuardsAccount /\ [Next]_vars => LockGuardsAccount'
  <2> SUFFICES ASSUME TypeInv, LockGuardsAccount, [Next]_vars PROVE LockGuardsAccount'
    OBVIOUS
  <2>1. CASE UNCHANGED vars
    BY <2>1 DEF LockGuardsAccount, vars
  <2>2. CASE Next
    BY <2>2, NextCases, SubmissionLocks, ElsewhereLocks
  <2> QED
    BY <2>1, <2>2
<1> QED
  BY <1>1, InitLocks, SpecSound, PTL DEF Spec

\* Two submissions never create a task on the same account at the same time.
THEOREM OneCallAtATime == Spec => []OneCallPerAccount
<1>1. TypeInv /\ LockGuardsAccount => OneCallPerAccount
  <2> SUFFICES ASSUME TypeInv, LockGuardsAccount,
                      NEW s \in Submission, NEW t \in Submission,
                      sub[s].pc \in Holding, sub[t].pc \in Holding,
                      sub[s].acc = sub[t].acc
               PROVE  s = t
    BY DEF OneCallPerAccount
  <2>1. sub[s].acc \in Account
    BY DEF TypeInv, TypeOK, AccountChosen, SubState, Occupied, Holding
  <2> QED
    BY <2>1 DEF LockGuardsAccount
<1> QED
  BY <1>1, SpecSound, LocksGuardAccounts, PTL

(***************************************************************************)
(* Where a status comes from                                               *)
(***************************************************************************)
Cause(st) == IF st = "QUOTA_EXHAUSTED" THEN "quota" ELSE "proxy"
Blamed    == {"QUOTA_EXHAUSTED", "PROXY_FAILED"}

Explained(a, st) ==
    st \in Blamed => \E s \in Submission : sub[s].answer[a] = Cause(st)

\* StatusHasCause, account by account.
LEMMA CauseExplained ==
    StatusHasCause <=> \A a \in Account : Explained(a, row[a].status)
  BY DEF StatusHasCause, Explained, Cause, Blamed

\* An account that refused for quota, or whose proxy failed, is not called
\* again by that submission, so the answer stands.
LEMMA AnswersStand ==
    ASSUME TypeInv, SoundInv, [Next]_vars,
           NEW s \in Submission, NEW a \in Account,
           sub[s].answer[a] \in {"quota", "proxy"}
    PROVE  sub'[s].answer[a] = sub[s].answer[a]
<1>s. \A t \in Submission :
         /\ sub[t] \in SubState /\ Sound(sub[t])
         /\ sub[t].pc \in Occupied => sub[t].acc \in Account
  BY DEF TypeInv, TypeOK, AccountChosen, SoundInv, SubState
<1>t. sub \in [Submission -> SubState]
  BY DEF TypeInv, TypeOK
<1>1. CASE sub' = sub
  BY <1>1
<1>2. CASE Restart
  BY <1>2, <1>s, RestartSub DEF SubState
<1>3. ASSUME NEW t \in Submission, Submit(t) \/ Work(t)
      PROVE  sub'[s].answer[a] = sub[s].answer[a]
  <2>1. CASE NoClient(t)
    <3>1. t = s => a # sub[t].acc
      BY <2>1, <1>s DEF NoClient, Sound
    <3> QED
      BY <2>1, <3>1, <1>s, <1>t DEF NoClient, SubState, Occupied
  <2>2. ASSUME NEW o, Answered(t, o) PROVE sub'[s].answer[a] = sub[s].answer[a]
    <3>1. t = s => a # sub[t].acc
      BY <2>2, <1>s DEF Answered, Sound
    <3>2. t = s => Heard(t, o).answer[a] = sub[s].answer[a]
      BY <2>2, <3>1, <1>s DEF Answered, Heard, SubState, Occupied
    <3> QED
      BY <2>2, <3>2, <1>t DEF Answered
  <2>3. CASE RefuseLocally(t) \/ \E o \in Answers : Reply(t, o)
    BY <2>2, <2>3 DEF RefuseLocally, Reply
  <2>5. ASSUME NEW v, sub' = [sub EXCEPT ![t] = v], v.answer = sub[t].answer
        PROVE  sub'[s].answer[a] = sub[s].answer[a]
    BY <2>5, <1>t
  <2>6. CASE Submit(t)
    BY <2>6, <2>5, <1>s DEF Submit, SubState, Move
  <2>7. CASE CaptureDay(t)
    BY <2>7, <2>5, <1>s DEF CaptureDay, SubState
  <2>8. CASE ResetQuotas(t)
    BY <2>8, <2>5, <1>s DEF ResetQuotas, SubState
  <2>9. CASE CaptureWriteDay(t)
    BY <2>9, <2>5, <1>s DEF CaptureWriteDay, SubState
  <2>10. CASE GiveUp(t)
    BY <2>10, <2>5, <1>s DEF GiveUp, SubState, Return
  <2>11. CASE Fail(t)
    BY <2>11, <2>5, <1>s DEF Fail, SubState, Return
  <2>12. CASE LockAccount(t)
    BY <2>12, <2>5, <1>s DEF LockAccount, SubState, Move
  <2>13. CASE GetClient(t)
    BY <2>13, <2>5, <1>s DEF GetClient, SubState
  <2>14. CASE CountTask(t)
    BY <2>14, <2>5, <1>s DEF CountTask, SubState
  <2>15. CASE MarkExhausted(t)
    BY <2>15, <2>5, <1>s DEF MarkExhausted, SubState, Continue
  <2>16. CASE CoolDown(t)
    BY <2>16, <2>5, <1>s DEF CoolDown, SubState, Continue
  <2>17. CASE MarkFailed(t)
    BY <2>17, <2>5, <1>s DEF MarkFailed, SubState, Continue
  <2>18. CASE FailOver(t)
    BY <2>18, <2>5, <1>s DEF FailOver, SubState, Continue
  <2>19. ASSUME NEW b \in Account, Select(t, b) PROVE sub'[s].answer[a] = sub[s].answer[a]
    <3>1. sub' = [sub EXCEPT ![t] =
                    [sub[t] EXCEPT !.pc = "lock", !.acc = b, !.tried = sub[t].tried \cup {b}]]
      BY <2>19 DEF Select
    <3> QED
      BY <3>1, <2>5, <1>s DEF SubState
  <2> QED
    BY <1>3, <2>1, <2>3, <2>6, <2>7, <2>8, <2>9, <2>10, <2>11, <2>12,
       <2>13, <2>14, <2>15, <2>16, <2>17, <2>18, <2>19 DEF Work
<1>4. CASE Next
  BY <1>1, <1>2, <1>3, <1>4, NextCases, ElsewhereSub
<1>5. CASE UNCHANGED vars
  <2>1. sub' = sub
    BY <1>5 DEF vars
  <2> QED
    BY <2>1, <1>1
<1> QED
  BY <1>4, <1>5

\* A written status is kept, cleared, a login failure, or has its cause.
LEMMA StatusesWritten ==
    ASSUME TypeInv, SoundInv, [Next]_vars, NEW a \in Account
    PROVE  row'[a].status = row[a].status \/ Explained(a, row'[a].status)
<1>t. /\ row \in [Account -> Row]
      /\ \A s \in Submission : sub[s].pc \in Occupied => sub[s].acc \in Account
  BY DEF TypeInv, TypeOK, AccountChosen, SubState
<1>r. row[a] \in Row
  BY <1>t
<1>1. ASSUME NEW d, row' = ResetRows(d)
      PROVE  row'[a].status \in {row[a].status, "HEALTHY"}
  <2>1. row'[a] = AutoReset(row[a], d)
    BY <1>1 DEF ResetRows
  <2>2. CASE Live(row[a]) /\ DayOver(row[a], d)
    <3>1. AutoReset(row[a], d).status
            = IF row[a].status = "QUOTA_EXHAUSTED" THEN "HEALTHY" ELSE row[a].status
      BY <2>2, <1>r DEF AutoReset, Row
    <3> QED
      BY <2>1, <3>1
  <2>3. CASE ~ (Live(row[a]) /\ DayOver(row[a], d))
    BY <2>1, <2>3 DEF AutoReset
  <2> QED
    BY <2>2, <2>3
<1>2. ASSUME NEW b \in Account, NEW r, row' = [row EXCEPT ![b] = r]
      PROVE  row'[a].status = IF a = b THEN r.status ELSE row[a].status
  BY <1>2, <1>t
<1>h. Explained(a, "HEALTHY") /\ Explained(a, "AUTH_FAILED")
  BY DEF Explained, Blamed
<1>3. ASSUME NEW s \in Submission, Submit(s) \/ Work(s)
      PROVE  row'[a].status = row[a].status \/ Explained(a, row'[a].status)
  <2>1. CASE ResetQuotas(s)
    BY <2>1, <1>1, <1>h DEF ResetQuotas, WriteTable
  <2>2. CASE CountTask(s)
    <3>1. sub[s].acc \in Account
      BY <2>2, <1>t DEF CountTask, Occupied
    <3>2. TaskCounted(row[sub[s].acc], sub[s].day).status = row[sub[s].acc].status
      BY <3>1, <1>t DEF TaskCounted, WhereLive, Row
    <3> QED
      BY <2>2, <3>1, <3>2, <1>2 DEF CountTask, WriteRow, WriteTable
  <2>3. CASE MarkExhausted(s)
    <3>1. sub[s].acc \in Account
      BY <2>3, <1>t DEF MarkExhausted, Occupied
    <3>2. Exhausted(row[sub[s].acc], sub[s].day).status
            \in {row[sub[s].acc].status, "QUOTA_EXHAUSTED"}
      BY <3>1, <1>t DEF Exhausted, WhereLive, Row
    <3>3. \/ row'[a].status = row[a].status
          \/ a = sub[s].acc /\ row'[a].status = "QUOTA_EXHAUSTED"
      BY <2>3, <3>1, <3>2, <1>2 DEF MarkExhausted, WriteRow, WriteTable
    <3>4. sub[s].answer[sub[s].acc] = Cause("QUOTA_EXHAUSTED")
      BY <2>3 DEF MarkExhausted, LastAnswer, Cause
    <3>5. Explained(sub[s].acc, "QUOTA_EXHAUSTED")
      BY <3>4 DEF Explained
    <3> QED
      BY <3>3, <3>5
  <2>4. CASE MarkFailed(s)
    <3>1. sub[s].acc \in Account
      BY <2>4, <1>t DEF MarkFailed, Occupied
    <3>2. Failed(row[sub[s].acc], FailedStatus(s)).status
            \in {row[sub[s].acc].status, FailedStatus(s)}
      BY <3>1, <1>t DEF Failed, WhereLive, Row
    <3>3. \/ row'[a].status = row[a].status
          \/ a = sub[s].acc /\ row'[a].status = FailedStatus(s)
      BY <2>4, <3>1, <3>2, <1>2 DEF MarkFailed, WriteRow, WriteTable
    <3>4. CASE LastAnswer(s) = "proxy"
      <4>1. sub[s].answer[sub[s].acc] = Cause("PROXY_FAILED")
        BY <3>4 DEF LastAnswer, Cause
      <4>2. Explained(sub[s].acc, "PROXY_FAILED")
        BY <4>1 DEF Explained
      <4>3. FailedStatus(s) = "PROXY_FAILED"
        BY <3>4 DEF FailedStatus
      <4> QED
        BY <3>3, <4>2, <4>3
    <3>5. CASE LastAnswer(s) # "proxy"
      <4>1. FailedStatus(s) = "AUTH_FAILED"
        BY <3>5 DEF FailedStatus
      <4> QED
        BY <3>3, <4>1, <1>h
    <3> QED
      BY <3>4, <3>5
  <2>5. CASE row' = row
    BY <2>5
  <2> QED
    BY <1>3, <2>1, <2>2, <2>3, <2>4, <2>5
    DEF Work, Submit, CaptureDay, GiveUp, Select, LockAccount, GetClient, NoClient,
        RefuseLocally, Reply, CaptureWriteDay, CoolDown, FailOver, Fail, table
<1>4. ASSUME NEW b \in Account, Operate(b)
      PROVE  row'[a].status = row[a].status \/ Explained(a, row'[a].status)
  <2>r. row[b] \in Row
    BY <1>t
  <2>1. ASSUME NEW r, WriteRow(b, r), r.status \in {row[b].status, "HEALTHY", "AUTH_FAILED"}
        PROVE  row'[a].status = row[a].status \/ Explained(a, row'[a].status)
    BY <2>1, <1>2, <1>h DEF WriteRow, WriteTable
  <2>2. CASE CreateAccount(b)
    BY <2>2, <2>1 DEF CreateAccount
  <2>3. CASE UpdateAccount(b)
    <3>1. PICK p \in Prio, e, bb \in BOOLEAN :
            WriteRow(b, [row[b] EXCEPT !.prio = p, !.enabled = e, !.buildable = bb])
      BY <2>3 DEF UpdateAccount
    <3>2. [row[b] EXCEPT !.prio = p, !.enabled = e, !.buildable = bb].status = row[b].status
      BY <2>r DEF Row
    <3> QED
      BY <3>1, <3>2, <2>1
  <2>4. CASE DeleteRow(b)
    <3>1. WhereLive(row[b], [row[b] EXCEPT !.stored = "deleted"]).status = row[b].status
      BY <2>r DEF Row, WhereLive
    <3> QED
      BY <2>4, <3>1, <2>1 DEF DeleteRow
  <2>q. QuotaReset(row[b]) \in Row /\ QuotaReset(row[b]).status \in {row[b].status, "HEALTHY"}
    BY <2>r DEF QuotaReset, WhereLive, Row, Status, Date
  <2>5. CASE ResetQuota(b)
    BY <2>5, <2>q, <2>1 DEF ResetQuota
  <2>6. CASE TestAccount(b)
    <3>1. Failed(row[b], "AUTH_FAILED").status \in {row[b].status, "AUTH_FAILED"}
      BY <2>r DEF Failed, WhereLive, Row
    <3>2. ASSUME NEW f \in Space \cup {row[b].free}
          PROVE  WhereLive(row[b], [row[b] EXCEPT !.status = "HEALTHY", !.free = f]).status
                   \in {row[b].status, "HEALTHY"}
      BY <2>r DEF WhereLive, Row
    <3> QED
      BY <2>6, <3>1, <3>2, <2>1 DEF TestAccount
  <2>7. CASE SyncAccountStorage(b)
    <3>1. ASSUME NEW f \in Space
          PROVE  WhereLive(row[b], [row[b] EXCEPT !.free = f]).status = row[b].status
      BY <2>r DEF WhereLive, Row
    <3> QED
      BY <2>7, <3>1, <2>1 DEF SyncAccountStorage
  <2>8. CASE InitializeAccount(b)
    <3>1. ASSUME NEW f \in Space \cup {row[b].free}
          PROVE  WhereLive(row[b], [QuotaReset(row[b]) EXCEPT !.free = f]).status
                   \in {row[b].status, "HEALTHY"}
      BY <2>q, <2>r DEF WhereLive, Row
    <3> QED
      BY <2>8, <3>1, <2>1 DEF InitializeAccount
  <2>9. CASE DeleteAccount(b) \/ OtherTraffic429(b)
    BY <2>9 DEF DeleteAccount, OtherTraffic429, table
  <2> QED
    BY <1>4, <2>2, <2>3, <2>4, <2>5, <2>6, <2>7, <2>8, <2>9 DEF Operate
<1>5. CASE TickReset
  BY <1>5, <1>1, <1>h DEF TickReset, WriteTable
<1>6. CASE UNCHANGED vars
  BY <1>6 DEF vars
<1>7. CASE Next
  BY <1>3, <1>4, <1>5, <1>7
  DEF Next, Tick, Midnight, CooldownEnds, UpdateSettings, Restart, table
<1> QED
  BY <1>6, <1>7

\* Started on tables without them, the program writes QUOTA_EXHAUSTED only for
\* a quota refusal and PROXY_FAILED only for a dead proxy: one failure is never
\* booked as another, in any interleaving with operators, resets and restarts.
THEOREM FailuresKeepTheirCause ==
    ASSUME \A r \in InitialRows, a \in Account : r[a].status \notin Blamed
    PROVE  Spec => []StatusHasCause
<1>1. Init => StatusHasCause
  BY DEF Init, StatusHasCause, Blamed
<1>2. TypeInv /\ SoundInv /\ StatusHasCause /\ [Next]_vars => StatusHasCause'
  <2> SUFFICES ASSUME TypeInv, SoundInv, StatusHasCause, [Next]_vars
               PROVE  StatusHasCause'
    OBVIOUS
  <2>1. ASSUME NEW a \in Account, NEW st \in Blamed, row'[a].status = st
        PROVE  \E s \in Submission : sub'[s].answer[a] = Cause(st)
    <3>1. Explained(a, st)
      BY <2>1, StatusesWritten, CauseExplained
    <3>2. PICK s \in Submission : sub[s].answer[a] = Cause(st)
      BY <3>1 DEF Explained
    <3>3. Cause(st) \in {"quota", "proxy"}
      BY DEF Cause
    <3>4. sub'[s].answer[a] = sub[s].answer[a]
      BY <3>2, <3>3, AnswersStand
    <3> QED
      BY <3>2, <3>4
  <2>2. ASSUME NEW a \in Account
        PROVE  /\ row'[a].status = "QUOTA_EXHAUSTED"
                  => \E s \in Submission : sub'[s].answer[a] = "quota"
               /\ row'[a].status = "PROXY_FAILED"
                  => \E s \in Submission : sub'[s].answer[a] = "proxy"
    BY <2>1 DEF Blamed, Cause
  <2> QED
    BY <2>2 DEF StatusHasCause
<1> QED
  BY <1>1, <1>2, SpecSound, PTL DEF Spec

(***************************************************************************)
(* Who was called before a submission gave up.  An account serviceable     *)
(* from the beginning of a submission on is serviceable now; if it was     *)
(* tried it has been called, unless it is the account at hand.  It cannot  *)
(* have been without a client, for its row was never gone and its          *)
(* proxy_url always one that NewClient accepts.                            *)
(***************************************************************************)
Unheard == {"none", "noClient"}

GivenUp == {"noAccounts", "insufficient", "allExhausted"}

SteadyServed == \A s \in Submission : steady[s] \subseteq ServiceableAccounts(row, Need[s])

Met(v, St) ==
    /\ v.pc = "idle" => v.tried = {}
    /\ v.pc # "done" => \A a \in St \cap v.tried :
         v.answer[a] \in Unheard => a = v.acc /\ v.pc \in {"lock", "client", "call"}
    /\ v.result \in GivenUp => \A a \in St : v.answer[a] \notin Unheard

MetInv == \A s \in Submission : Met(sub[s], steady[s])

\* A written table narrows the history to the accounts that are still serviceable.
LEMMA TableNarrows ==
    ASSUME TypeInv, NEW new, WriteTable(new)
    PROVE  SteadyServed' /\ \A s \in Submission : steady'[s] \subseteq steady[s]
  BY DEF WriteTable, SteadyServed

\* Leaving the table alone leaves the history alone.
LEMMA TableKept ==
    ASSUME SteadyServed, UNCHANGED table
    PROVE  SteadyServed' /\ \A s \in Submission : steady'[s] \subseteq steady[s]
  BY DEF table, SteadyServed

\* Every step that is no new submission leaves or narrows the history.
LEMMA SteadyNarrows ==
    ASSUME TypeInv, SteadyServed, [Next]_vars
    PROVE  \/ \E s \in Submission : Submit(s)
           \/ SteadyServed' /\ \A s \in Submission : steady'[s] \subseteq steady[s]
<1> DEFINE Narrowed == SteadyServed' /\ \A s \in Submission : steady'[s] \subseteq steady[s]
<1>w. ASSUME NEW new, WriteTable(new) PROVE Narrowed
  BY <1>w, TableNarrows
<1>r. ASSUME NEW a, NEW r, WriteRow(a, r) PROVE Narrowed
  BY <1>r, TableNarrows DEF WriteRow
<1>k. UNCHANGED table => Narrowed
  BY TableKept
<1> SUFFICES ASSUME ~ \E s \in Submission : Submit(s) PROVE Narrowed
  OBVIOUS
<1> HIDE DEF Narrowed
<1>1. ASSUME NEW s \in Submission, Work(s) PROVE Narrowed
  <2>1. CASE ResetQuotas(s)
    BY <2>1, <1>w DEF ResetQuotas
  <2>2. CASE CountTask(s) \/ MarkExhausted(s) \/ MarkFailed(s)
    BY <2>2, <1>r DEF CountTask, MarkExhausted, MarkFailed
  <2>3. CASE CaptureDay(s) \/ GiveUp(s) \/ (\E a \in Account : Select(s, a)) \/ LockAccount(s)
    BY <2>3, <1>k DEF CaptureDay, GiveUp, Select, LockAccount
  <2>4. CASE GetClient(s) \/ NoClient(s) \/ RefuseLocally(s) \/ (\E o \in Answers : Reply(s, o))
    BY <2>4, <1>k DEF GetClient, NoClient, RefuseLocally, Reply
  <2>5. CASE CaptureWriteDay(s) \/ CoolDown(s) \/ FailOver(s) \/ Fail(s)
    BY <2>5, <1>k DEF CaptureWriteDay, CoolDown, FailOver, Fail
  <2> QED
    BY <1>1, <2>1, <2>2, <2>3, <2>4, <2>5 DEF Work
<1>2. CASE Elsewhere
  <2>1. CASE TickReset
    BY <2>1, <1>w DEF TickReset
  <2>2. CASE Tick \/ Midnight \/ (\E c \in cooling : CooldownEnds(c)) \/ UpdateSettings \/ Restart
    BY <2>2, <1>k DEF Tick, Midnight, CooldownEnds, UpdateSettings, Restart
  <2>3. ASSUME NEW a \in Account, Operate(a) PROVE Narrowed
    <3>1. CASE DeleteAccount(a) \/ OtherTraffic429(a)
      BY <3>1, <1>k DEF DeleteAccount, OtherTraffic429
    <3>2. CASE CreateAccount(a) \/ UpdateAccount(a) \/ DeleteRow(a) \/ ResetQuota(a)
      BY <3>2, <1>r DEF CreateAccount, UpdateAccount, DeleteRow, ResetQuota
    <3>3. CASE TestAccount(a) \/ SyncAccountStorage(a) \/ InitializeAccount(a)
      BY <3>3, <1>r DEF TestAccount, SyncAccountStorage, InitializeAccount
    <3> QED
      BY <2>3, <3>1, <3>2, <3>3 DEF Operate
  <2> QED
    BY <1>2, <2>1, <2>2, <2>3 DEF Elsewhere
<1>3. CASE UNCHANGED vars
  BY <1>3, <1>k DEF vars, table
<1> QED
  BY <1>1, <1>2, <1>3, NextCases

\* Fewer steady accounts ask less of a submission.
LEMMA MetNarrowed ==
    ASSUME NEW v, NEW St, NEW Fewer, Fewer \subseteq St, Met(v, St)
    PROVE  Met(v, Fewer)
  BY DEF Met

\* A step that leaves one submission met and narrows the history leaves all of
\* them met.
LEMMA MetWritten ==
    ASSUME TypeInv, MetInv, NEW s \in Submission, NEW v, Met(v, steady[s]),
           sub' = [sub EXCEPT ![s] = v],
           \A t \in Submission : steady'[t] \subseteq steady[t]
    PROVE  MetInv'
<1>1. sub \in [Submission -> SubState]
  BY DEF TypeInv, TypeOK
<1> SUFFICES ASSUME NEW t \in Submission PROVE Met(sub'[t], steady'[t])
  BY DEF MetInv
<1>2. Met(sub'[t], steady[t])
  BY <1>1 DEF MetInv
<1> QED
  BY <1>2, MetNarrowed

\* Every step of a submission under way keeps it met.
LEMMA WorkMet ==
    ASSUME TypeInv, SoundInv, SteadyServed, MetInv, NEW s \in Submission, Work(s),
           \A t \in Submission : steady'[t] \subseteq steady[t]
    PROVE  MetInv'
<1> DEFINE St == steady[s]
<1>s. /\ sub[s] \in SubState
      /\ sub[s].pc \in Occupied => sub[s].acc \in sub[s].tried /\ sub[s].acc \in Account
      /\ Sound(sub[s]) /\ Met(sub[s], St)
      /\ St \subseteq ServiceableAccounts(row, Need[s]) /\ St \subseteq Account
  BY DEF TypeInv, TypeOK, AccountChosen, SoundInv, SubState, SteadyServed, MetInv
<1> HIDE DEF St
<1>w. ASSUME NEW v, Met(v, St), sub' = [sub EXCEPT ![s] = v] PROVE MetInv'
  BY <1>w, MetWritten DEF St
<1>2. CASE CaptureDay(s)
  <2>1. Met([sub[s] EXCEPT !.pc = "reset", !.day = today], St)
    BY <1>2, <1>s DEF CaptureDay, Met, Sound, SubState, GivenUp
  <2> QED
    BY <1>2, <2>1, <1>w DEF CaptureDay
<1>3. CASE ResetQuotas(s)
  <2>1. Met([sub[s] EXCEPT !.pc = "list", !.day = NoDate], St)
    BY <1>3, <1>s DEF ResetQuotas, Met, Sound, SubState, GivenUp
  <2> QED
    BY <1>3, <2>1, <1>w DEF ResetQuotas
<1>4. CASE GiveUp(s)
  <2>1. UsableAccounts(row, Need[s]) \subseteq sub[s].tried /\ sub[s].pc = "list"
    BY <1>4 DEF GiveUp, Candidates
  <2>2. \A a \in St : sub[s].answer[a] \notin Unheard
    BY <2>1, <1>s DEF Met, ServiceableAccounts, UsableAccounts, Serviceable
  <2>3. Met([sub[s] EXCEPT !.pc = "done", !.gen = 0, !.result = GiveUpWith(s)], St)
    BY <2>2, <1>s DEF Met, SubState
  <2> QED
    BY <1>4, <2>3, <1>w DEF GiveUp, Return
<1>5. ASSUME NEW a \in Account, Select(s, a) PROVE MetInv'
  <2>1. /\ sub[s].pc = "list"
        /\ sub' = [sub EXCEPT ![s] =
                  [sub[s] EXCEPT !.pc = "lock", !.acc = a, !.tried = sub[s].tried \cup {a}]]
    BY <1>5 DEF Select
  <2>2. Met([sub[s] EXCEPT !.pc = "lock", !.acc = a, !.tried = sub[s].tried \cup {a}], St)
    BY <2>1, <1>s DEF Met, Sound, SubState, GivenUp
  <2> QED
    BY <2>1, <2>2, <1>w
<1>6. CASE LockAccount(s)
  <2>1. Met([sub[s] EXCEPT !.pc = "client"], St)
    BY <1>6, <1>s DEF LockAccount, Met, Sound, SubState, GivenUp
  <2> QED
    BY <1>6, <2>1, <1>w DEF LockAccount, Move
<1>7. CASE GetClient(s)
  <2>1. Met([sub[s] EXCEPT !.pc = "call", !.gen = Built(sub[s].acc).gen], St)
    BY <1>7, <1>s DEF GetClient, Met, Sound, SubState, GivenUp
  <2> QED
    BY <1>7, <2>1, <1>w DEF GetClient
<1>8. CASE NoClient(s)
  <2>1. sub[s].acc \notin St
    BY <1>8, <1>s DEF NoClient, CanGetClient, ServiceableAccounts, Serviceable, Usable,
                      Available
  <2>2. Met([sub[s] EXCEPT !.pc = "begin", !.answer[sub[s].acc] = "noClient"], St)
    BY <1>8, <2>1, <1>s DEF NoClient, Met, Sound, SubState, Occupied, GivenUp
  <2> QED
    BY <1>8, <2>2, <1>w DEF NoClient
<1>9. ASSUME NEW o \in Answer, Answered(s, o), o \notin Unheard PROVE MetInv'
  <2> DEFINE again == RetryAfter(s, o)
             k == IF again THEN sub[s].n + 1 ELSE 0
             p == IF again THEN "call" ELSE "answered"
  <2>1. Heard(s, o) = [sub[s] EXCEPT !.pc = p, !.n = k, !.answer[sub[s].acc] = o]
    BY DEF Heard
  <2>2. p \in {"call", "answered"}
    OBVIOUS
  <2>3. sub[s].pc = "call"
    BY <1>9 DEF Answered
  <2> HIDE DEF k, p
  <2>4. Met(Heard(s, o), St)
    BY <1>9, <2>1, <2>2, <2>3, <1>s DEF Met, Sound, SubState, Occupied, GivenUp
  <2> QED
    BY <1>9, <2>4, <1>w DEF Answered
<1>10. CASE RefuseLocally(s)
  BY <1>10, <1>9 DEF RefuseLocally, Answer, Unheard
<1>11. ASSUME NEW o \in Answers, Reply(s, o) PROVE MetInv'
  <2>1. o \in Answer /\ o \notin Unheard
    BY SchedulerAssumption DEF Answer, Unheard
  <2> QED
    BY <1>11, <1>9, <2>1 DEF Reply
<1>12. CASE CaptureWriteDay(s)
  <2>1. Met([sub[s] EXCEPT !.pc = "write", !.day = today], St)
    BY <1>12, <1>s DEF CaptureWriteDay, Met, Sound, SubState, GivenUp
  <2> QED
    BY <1>12, <2>1, <1>w DEF CaptureWriteDay
<1>13. CASE CountTask(s)
  <2>1. Met([sub[s] EXCEPT !.pc = "done", !.gen = 0, !.result = "ok"], St)
    BY <1>13, <1>s DEF CountTask, Met, SubState, GivenUp
  <2> QED
    BY <1>13, <2>1, <1>w DEF CountTask
<1>c. ASSUME Continue(s), sub[s].pc \in {"answered", "write"} PROVE MetInv'
  <2>1. Met([sub[s] EXCEPT !.pc = "begin", !.gen = 0, !.day = NoDate], St)
    BY <1>c, <1>s DEF Met, Sound, SubState, GivenUp
  <2> QED
    BY <1>c, <2>1, <1>w DEF Continue
<1>14. CASE MarkExhausted(s) \/ CoolDown(s) \/ MarkFailed(s) \/ FailOver(s)
  BY <1>14, <1>c DEF MarkExhausted, CoolDown, MarkFailed, FailOver
<1>15. CASE Fail(s)
  <2>1. Met([sub[s] EXCEPT !.pc = "done", !.gen = 0, !.result = "failed"], St)
    BY <1>15, <1>s DEF Fail, Met, SubState, GivenUp
  <2> QED
    BY <1>15, <2>1, <1>w DEF Fail, Return
<1> QED
  BY <1>2, <1>3, <1>4, <1>5, <1>6, <1>7, <1>8, <1>10, <1>11, <1>12, <1>13, <1>14, <1>15
     DEF Work

\* A new submission starts with the accounts serviceable now, none of
\* them tried.
LEMMA SubmitMet ==
    ASSUME TypeInv, SoundInv, SteadyServed, MetInv, NEW s \in Submission, Submit(s)
    PROVE  SteadyServed' /\ MetInv'
<1>t. /\ sub \in [Submission -> SubState] /\ sub[s] \in SubState
      /\ steady \in [Submission -> SUBSET Account]
      /\ Sound(sub[s]) /\ Met(sub[s], steady[s]) /\ sub[s].pc = "idle"
  BY DEF TypeInv, TypeOK, SoundInv, MetInv, Submit
<1>1. SteadyServed'
  BY <1>t DEF Submit, SteadyServed
<1>2. Met([sub[s] EXCEPT !.pc = "begin"], ServiceableAccounts(row, Need[s]))
  BY <1>t DEF Met, Sound, SubState, GivenUp
<1>3. \A t \in Submission : Met(sub'[t], steady'[t])
  BY <1>t, <1>2 DEF Submit, Move, MetInv
<1> QED
  BY <1>1, <1>3 DEF MetInv

\* Nothing outside a submission makes it miss an account.
LEMMA ElsewhereMet ==
    ASSUME TypeInv, MetInv, SoundInv, Elsewhere,
           \A t \in Submission : steady'[t] \subseteq steady[t]
    PROVE  MetInv'
<1>1. CASE sub' = sub
  BY <1>1, MetNarrowed DEF MetInv
<1>2. CASE Restart
  <2> SUFFICES ASSUME NEW s \in Submission PROVE Met(sub'[s], steady'[s])
    BY DEF MetInv
  <2>1. sub[s] \in SubState /\ Met(sub[s], steady[s])
    BY DEF TypeInv, TypeOK, MetInv
  <2>2. Met([sub[s] EXCEPT !.pc = "done", !.gen = 0, !.n = 0,
                           !.day = NoDate, !.result = "lost"], steady[s])
    BY <2>1 DEF Met, SubState, GivenUp
  <2>3. Met(sub'[s], steady[s])
    BY <1>2, <2>1, <2>2, RestartSub
  <2> QED
    BY <2>3, MetNarrowed
<1> QED
  BY <1>1, <1>2, ElsewhereSub

\* A submission that gives up has called every account that was serviceable from its
\* beginning to its end, whatever operators, resets, other submissions and
\* restarts did meanwhile.
THEOREM NoSteadyAccountMissed == Spec => []SteadyAccountsCalled
<1>1. Init => SteadyServed /\ MetInv
  BY DEF Init, NewSub, SteadyServed, MetInv, Met, GivenUp
<1>2. /\ TypeInv /\ SoundInv /\ SteadyServed /\ MetInv /\ [Next]_vars
      => SteadyServed' /\ MetInv'
  <2> SUFFICES ASSUME TypeInv, SoundInv, SteadyServed, MetInv, [Next]_vars
               PROVE  SteadyServed' /\ MetInv'
    OBVIOUS
  <2>1. ASSUME NEW s \in Submission, Submit(s) PROVE SteadyServed' /\ MetInv'
    BY <2>1, SubmitMet
  <2>2. CASE SteadyServed' /\ \A t \in Submission : steady'[t] \subseteq steady[t]
    <3>1. CASE UNCHANGED vars
      BY <3>1, <2>2 DEF vars, MetInv
    <3>2. CASE Next
      BY <2>1, <2>2, <3>2, NextCases, WorkMet, ElsewhereMet
    <3> QED
      BY <3>1, <3>2
  <2> QED
    BY <2>1, <2>2, SteadyNarrows
<1>3. MetInv => SteadyAccountsCalled
  BY DEF MetInv, Met, GivenUp, Unheard, SteadyAccountsCalled
<1> QED
  BY <1>1, <1>2, <1>3, SpecSound, PTL DEF Spec

(***************************************************************************)
(* The daily count.  A task is created when PikPak answers, and booked when *)
(* the statement that counts it is done.  A count is never above the tasks *)
(* booked, and never above those booked under the date of the row unless   *)
(* the account has refused for its quota.                                  *)
(***************************************************************************)
Booked(a) == {s \in Created(a) : sub[s].pc \notin {"answered", "write"}}

CountInv ==
    \A a \in Account :
        /\ IsFiniteSet(Created(a))
        /\ row[a].count <= Cardinality(Booked(a))
        /\ ~ QuotaRefused(a) => row[a].count <= Cardinality(CountedOn(a, row[a].lastDay))

\* A submission that has ended does nothing, and a step of one submission
\* leaves the local variables of the others alone.
LEMMA OthersWait ==
    ASSUME TypeInv, NEW s \in Submission, Submit(s) \/ Work(s)
    PROVE  /\ sub[s].pc # "done"
           /\ \A t \in Submission \ {s} : sub'[t] = sub[t]
<1>t. sub \in [Submission -> SubState]
  BY DEF TypeInv, TypeOK
<1> QED
  BY <1>t
  DEF Work, Submit, CaptureDay, ResetQuotas, GiveUp, Select, LockAccount, GetClient,
      NoClient, RefuseLocally, Reply, Answered, CaptureWriteDay, CountTask,
      MarkExhausted, CoolDown, MarkFailed, FailOver, Fail, Move, Return, Continue

\* The booked tasks of an account are among the finitely many created on it.
LEMMA BookedFinite ==
    ASSUME NEW a \in Account, IsFiniteSet(Created(a))
    PROVE  /\ IsFiniteSet(Booked(a))
           /\ Cardinality(Booked(a)) \in Nat
           /\ Cardinality(Booked(a)) <= Cardinality(Created(a))
<1>1. Booked(a) \in SUBSET Created(a)
  BY DEF Booked
<1> QED
  BY <1>1, FS_Subset, FS_CardinalityType

\* A step adds at most one task to those created, and takes none from those
\* booked, whatever their day.
LEMMA TasksGrow ==
    ASSUME TypeInv, SoundInv, [Next]_vars, NEW a \in Account
    PROVE  /\ \E x : Created(a)' \subseteq Created(a) \cup {x}
           /\ Booked(a) \subseteq Booked(a)'
           /\ \A s \in Booked(a) : sub[s].pc = "done" /\ sub'[s] = sub[s]
<1>s. ASSUME NEW s \in Booked(a) PROVE sub[s].pc = "done"
  BY <1>s DEF SoundInv, Sound, Booked, Created
<1>1. ASSUME NEW t \in Submission, Submit(t) \/ Work(t)
      PROVE  /\ Created(a)' \subseteq Created(a) \cup {t}
             /\ Booked(a) \subseteq Booked(a)'
             /\ \A s \in Booked(a) : sub'[s] = sub[s]
  BY <1>1, <1>s, OthersWait DEF Created, Booked
<1>2. CASE sub' = sub
  BY <1>2, <1>s DEF Created, Booked
<1>3. CASE Restart
  <2>1. ASSUME NEW s \in Submission
        PROVE  /\ sub'[s].answer[a] = sub[s].answer[a]
               /\ sub[s].pc = "done" => sub'[s] = sub[s]
    <3>1. sub[s] \in SubState
      BY DEF TypeInv, TypeOK
    <3> QED
      BY <1>3, <3>1, RestartSub, ZenonT(60) DEF SubState
  <2> QED
    BY <2>1, <1>s DEF Created, Booked
<1>4. CASE UNCHANGED vars
  BY <1>4, <1>2 DEF vars
<1> QED
  BY <1>1, <1>2, <1>3, <1>4, <1>s, NextCases, ElsewhereSub

\* A row keeps its count and its date, or has its count put back to zero.
Settles(a, r) ==
    \/ r.count = 0
    \/ r.count = row[a].count /\ r.lastDay = row[a].lastDay

\* Only two statements do more than that: marking an account exhausted dates
\* the row and keeps the count, and counting a task does what TaskCounted says.
LEMMA CountsWritten ==
    ASSUME TypeInv, [Next]_vars, NEW a \in Account
    PROVE  \/ Settles(a, row'[a])
           \/ \E s \in Submission :
                /\ MarkExhausted(s) /\ sub[s].acc = a
                /\ row'[a].count = row[a].count
           \/ \E s \in Submission :
                /\ CountTask(s) /\ sub[s].acc = a
                /\ row'[a] = TaskCounted(row[a], sub[s].day)
<1>t. /\ row \in [Account -> Row]
      /\ \A s \in Submission : sub[s].pc \in Occupied => sub[s].acc \in Account
  BY DEF TypeInv, TypeOK, AccountChosen, SubState
<1>r. ASSUME NEW b \in Account PROVE row[b] \in Row
  BY <1>t
<1>1. ASSUME NEW d, row' = ResetRows(d) PROVE Settles(a, row'[a])
  <2>1. row'[a] = AutoReset(row[a], d)
    BY <1>1 DEF ResetRows
  <2>2. Settles(a, AutoReset(row[a], d))
    BY <1>r DEF AutoReset, Row, Settles
  <2> QED
    BY <2>1, <2>2
<1>w. ASSUME NEW b \in Account, NEW r, WriteRow(b, r)
      PROVE  row'[a] = IF a = b THEN r ELSE row[a]
  BY <1>w, <1>t DEF WriteRow, WriteTable
<1>k. Settles(a, row[a])
  BY DEF Settles
<1>2. ASSUME NEW b \in Account, NEW r, WriteRow(b, r), Settles(b, r)
      PROVE  Settles(a, row'[a])
  <2>1. row'[a] = IF a = b THEN r ELSE row[a]
    BY <1>2, <1>w
  <2>2. CASE a = b
    BY <2>1, <2>2, <1>2 DEF Settles
  <2>3. CASE a # b
    BY <2>1, <2>3, <1>k
  <2> QED
    BY <2>2, <2>3
<1>3. ASSUME NEW s \in Submission, CountTask(s)
      PROVE  \/ Settles(a, row'[a])
             \/ sub[s].acc = a /\ row'[a] = TaskCounted(row[a], sub[s].day)
  <2>1. sub[s].acc \in Account /\ WriteRow(sub[s].acc, TaskCounted(row[sub[s].acc], sub[s].day))
    BY <1>3, <1>t DEF CountTask, Occupied
  <2>2. row'[a] = IF a = sub[s].acc THEN TaskCounted(row[sub[s].acc], sub[s].day)
                  ELSE row[a]
    BY <2>1, <1>w
  <2> QED
    BY <2>2, <1>k
<1>m. ASSUME NEW s \in Submission, MarkExhausted(s)
      PROVE  \/ Settles(a, row'[a])
             \/ sub[s].acc = a /\ row'[a].count = row[a].count
  <2>1. sub[s].acc \in Account /\ WriteRow(sub[s].acc, Exhausted(row[sub[s].acc], sub[s].day))
    BY <1>m, <1>t DEF MarkExhausted, Occupied
  <2>2. row'[a] = IF a = sub[s].acc THEN Exhausted(row[sub[s].acc], sub[s].day)
                  ELSE row[a]
    BY <2>1, <1>w
  <2>3. Exhausted(row[a], sub[s].day).count = row[a].count
    BY <1>r DEF Exhausted, WhereLive, Row
  <2> QED
    BY <2>2, <2>3, <1>k
<1>4. ASSUME NEW s \in Submission, Submit(s) \/ Work(s), ~ CountTask(s), ~ MarkExhausted(s)
      PROVE  Settles(a, row'[a])
  <2>1. CASE ResetQuotas(s)
    BY <2>1, <1>1 DEF ResetQuotas, WriteTable
  <2>2. CASE MarkFailed(s)
    <3>1. sub[s].acc \in Account
      BY <2>2, <1>t DEF MarkFailed, Occupied
    <3>2. Settles(sub[s].acc, Failed(row[sub[s].acc], FailedStatus(s)))
      BY <3>1, <1>r DEF Failed, WhereLive, Row, Settles
    <3> QED
      BY <2>2, <3>1, <3>2, <1>2 DEF MarkFailed
  <2> QED
    BY <1>4, <2>1, <2>2, <1>k
    DEF Work, Submit, CaptureDay, GiveUp, Select, LockAccount, GetClient, NoClient,
        RefuseLocally, Reply, CaptureWriteDay, CoolDown, FailOver, Fail, table
<1>5. ASSUME NEW b \in Account, Operate(b) PROVE Settles(a, row'[a])
  <2>r. row[b] \in Row
    BY <1>t
  <2>1. CASE CreateAccount(b)
    BY <2>1, <1>2 DEF CreateAccount, Settles
  <2>2. CASE UpdateAccount(b)
    <3>1. PICK p \in Prio, e, bb \in BOOLEAN :
            WriteRow(b, [row[b] EXCEPT !.prio = p, !.enabled = e, !.buildable = bb])
      BY <2>2 DEF UpdateAccount
    <3>2. Settles(b, [row[b] EXCEPT !.prio = p, !.enabled = e, !.buildable = bb])
      BY <2>r DEF Row, Settles
    <3> QED
      BY <3>1, <3>2, <1>2
  <2>3. CASE DeleteRow(b)
    <3>1. Settles(b, WhereLive(row[b], [row[b] EXCEPT !.stored = "deleted"]))
      BY <2>r DEF Row, WhereLive, Settles
    <3> QED
      BY <2>3, <3>1, <1>2 DEF DeleteRow
  <2>q. QuotaReset(row[b]) \in Row /\ Settles(b, QuotaReset(row[b]))
    BY <2>r DEF QuotaReset, WhereLive, Row, Status, Date, Settles
  <2>4. CASE ResetQuota(b)
    BY <2>4, <2>q, <1>2 DEF ResetQuota
  <2>5. CASE TestAccount(b)
    <3>1. Settles(b, Failed(row[b], "AUTH_FAILED"))
      BY <2>r DEF Failed, WhereLive, Row, Settles
    <3>2. ASSUME NEW f \in Space \cup {row[b].free}
          PROVE  Settles(b, WhereLive(row[b], [row[b] EXCEPT !.status = "HEALTHY", !.free = f]))
      BY <2>r DEF WhereLive, Row, Settles
    <3> QED
      BY <2>5, <3>1, <3>2, <1>2 DEF TestAccount
  <2>6. CASE SyncAccountStorage(b)
    <3>1. ASSUME NEW f \in Space
          PROVE  Settles(b, WhereLive(row[b], [row[b] EXCEPT !.free = f]))
      BY <2>r DEF WhereLive, Row, Settles
    <3> QED
      BY <2>6, <3>1, <1>2 DEF SyncAccountStorage
  <2>7. CASE InitializeAccount(b)
    <3>1. ASSUME NEW f \in Space \cup {row[b].free}
          PROVE  Settles(b, WhereLive(row[b], [QuotaReset(row[b]) EXCEPT !.free = f]))
      BY <2>q, <2>r DEF WhereLive, Row, Settles
    <3> QED
      BY <2>7, <3>1, <1>2 DEF InitializeAccount
  <2>8. CASE DeleteAccount(b) \/ OtherTraffic429(b)
    BY <2>8, <1>k DEF DeleteAccount, OtherTraffic429, table
  <2> QED
    BY <1>5, <2>1, <2>2, <2>3, <2>4, <2>5, <2>6, <2>7, <2>8 DEF Operate
<1>6. CASE TickReset
  BY <1>6, <1>1 DEF TickReset, WriteTable
<1>7. CASE row' = row
  BY <1>7, <1>k
<1>8. CASE Next
  BY <1>3, <1>m, <1>4, <1>5, <1>6, <1>7, <1>8
  DEF Next, Tick, Midnight, CooldownEnds, UpdateSettings, Restart, table
<1> QED
  BY <1>7, <1>8 DEF vars

\* Counting a task books it under the date that was captured for it.
LEMMA TaskBooked ==
    ASSUME TypeInv, SoundInv, NEW s \in Submission, CountTask(s),
           NEW a \in Account, sub[s].acc = a
    PROVE  /\ s \in Booked(a)' /\ sub'[s].pc = "done" /\ sub'[s].day = sub[s].day
           /\ s \notin Booked(a)
<1>1. /\ sub[s] \in SubState /\ sub \in [Submission -> SubState]
      /\ sub[s].pc = "write" /\ sub[s].answer[sub[s].acc] = "ok"
  BY DEF TypeInv, TypeOK, CountTask, LastAnswer
<1>2. /\ sub'[s].answer = sub[s].answer /\ sub'[s].pc = "done"
      /\ sub'[s].day = sub[s].day
  BY <1>1 DEF CountTask, SubState
<1> QED
  BY <1>1, <1>2 DEF Booked, Created

\* A count stays below the tasks booked on its account.
LEMMA BookedStep ==
    ASSUME TypeInv, SoundInv, CountInv, [Next]_vars, NEW a \in Account
    PROVE  IsFiniteSet(Created(a)') /\ row'[a].count <= Cardinality(Booked(a)')
<1>1. IsFiniteSet(Created(a)) /\ row[a].count <= Cardinality(Booked(a))
  BY DEF CountInv
<1>2. PICK x : Created(a)' \subseteq Created(a) \cup {x}
  BY TasksGrow
<1>3. IsFiniteSet(Created(a)')
  BY <1>1, <1>2, FS_AddElement, FS_Subset
<1>4. Booked(a)' \in SUBSET (Created(a)') /\ Booked(a) \in SUBSET (Booked(a)')
  BY TasksGrow DEF Booked
<1>5. IsFiniteSet(Booked(a)') /\ Cardinality(Booked(a)') \in Nat
  BY <1>3, <1>4, FS_Subset, FS_CardinalityType
<1>6. IsFiniteSet(Booked(a)) /\ Cardinality(Booked(a)) \in Nat
  BY <1>1, BookedFinite
<1>7. Cardinality(Booked(a)) <= Cardinality(Booked(a)')
  BY <1>4, <1>5, FS_Subset
<1>c. row[a] \in Row /\ row[a].count \in Nat /\ row'[a].count \in Nat
  BY TypeInvStep DEF TypeInv, TypeOK, Row
<1>8. ASSUME NEW s \in Submission, CountTask(s), sub[s].acc = a
      PROVE  Cardinality(Booked(a)) + 1 <= Cardinality(Booked(a)')
  <2>1. s \in Booked(a)' /\ s \notin Booked(a)
    BY <1>8, TaskBooked
  <2>2. Booked(a) \cup {s} \in SUBSET (Booked(a)')
    BY <1>4, <2>1
  <2>3. Cardinality(Booked(a) \cup {s}) = Cardinality(Booked(a)) + 1
    BY <1>6, <2>1, FS_AddElement
  <2> QED
    BY <1>5, <2>2, <2>3, FS_Subset
<1>9. ASSUME NEW d PROVE TaskCounted(row[a], d).count <= row[a].count + 1
  BY <1>c DEF TaskCounted, WhereLive, Row
<1> QED
  BY <1>1, <1>3, <1>5, <1>6, <1>7, <1>8, <1>9, <1>c, CountsWritten DEF Settles

\* A count stays below the tasks of the day its row is dated with, unless the
\* account has refused for its quota.
LEMMA DayStep ==
    ASSUME TypeInv, SoundInv, CountInv, [Next]_vars, NEW a \in Account,
           ~ QuotaRefused(a)'
    PROVE  row'[a].count <= Cardinality(CountedOn(a, row[a].lastDay)')
<1> DEFINE D == CountedOn(a, row[a].lastDay)
           E == CountedOn(a, row[a].lastDay)'
<1>1. ~ QuotaRefused(a)
  BY AnswersStand DEF QuotaRefused
<1>2. row[a].count <= Cardinality(D)
  BY <1>1 DEF CountInv
<1>c. row[a] \in Row /\ row[a].count \in Nat /\ row'[a].count \in Nat
  BY TypeInvStep DEF TypeInv, TypeOK, Row
<1>m. /\ E = {s \in Created(a)' : sub'[s].pc = "done" /\ sub'[s].day = row'[a].lastDay}
      /\ D = {s \in Booked(a) : sub[s].pc = "done" /\ sub[s].day = row[a].lastDay}
  BY DEF CountedOn, Booked
<1>3. E \in SUBSET (Created(a)') /\ D \in SUBSET Booked(a)
  BY <1>m
<1>4. IsFiniteSet(E) /\ Cardinality(E) \in Nat
  BY <1>3, BookedStep, FS_Subset, FS_CardinalityType
<1>5. IsFiniteSet(D) /\ Cardinality(D) \in Nat
  BY <1>3, BookedFinite, FS_Subset, FS_CardinalityType DEF CountInv
<1>6. ASSUME row'[a].lastDay = row[a].lastDay
      PROVE  D \in SUBSET E /\ Cardinality(D) <= Cardinality(E)
  <2>1. ASSUME NEW s \in D PROVE s \in Created(a)' /\ sub'[s] = sub[s]
    BY <2>1, <1>m, TasksGrow DEF Booked
  <2>2. D \in SUBSET E
    BY <2>1, <1>6, <1>m
  <2> QED
    BY <2>2, <1>4, FS_Subset
<1>7. CASE Settles(a, row'[a])
  BY <1>7, <1>2, <1>4, <1>5, <1>6, <1>c DEF Settles
<1>8. ASSUME NEW s \in Submission, MarkExhausted(s), sub[s].acc = a
      PROVE  FALSE
  <2>1. sub[s].answer[a] = "quota"
    BY <1>8 DEF MarkExhausted, LastAnswer
  <2>2. sub'[s].answer[a] = "quota"
    BY <2>1, AnswersStand
  <2> QED
    BY <2>2 DEF QuotaRefused
<1>9. ASSUME NEW s \in Submission, CountTask(s), sub[s].acc = a,
             row'[a] = TaskCounted(row[a], sub[s].day), ~ Settles(a, row'[a])
      PROVE  row'[a].count <= Cardinality(E)
  <2>1. /\ row'[a].lastDay = sub[s].day
        /\ row'[a].count = IF row[a].lastDay = sub[s].day THEN row[a].count + 1 ELSE 1
    BY <1>9, <1>c DEF TaskCounted, WhereLive, Row, Settles
  <2>2. s \in E /\ s \notin D
    BY <1>9, <2>1, <1>m, TaskBooked DEF Booked
  <2>3. CASE row[a].lastDay = sub[s].day
    <3>1. D \cup {s} \in SUBSET E
      BY <2>1, <2>2, <2>3, <1>6
    <3>2. Cardinality(D \cup {s}) = Cardinality(D) + 1
      BY <2>2, <1>5, FS_AddElement
    <3>3. Cardinality(D) + 1 <= Cardinality(E)
      BY <3>1, <3>2, <1>4, FS_Subset
    <3> QED
      BY <3>3, <2>1, <2>3, <1>2, <1>4, <1>5, <1>c
  <2>4. CASE row[a].lastDay # sub[s].day
    <3>1. Cardinality(E) # 0
      BY <2>2, <1>4, FS_EmptySet
    <3> QED
      BY <3>1, <2>1, <2>4, <1>4
  <2> QED
    BY <2>3, <2>4
<1> QED
  BY <1>7, <1>8, <1>9, CountsWritten

\* Started on tables whose counts are zero, the program never counts more tasks
\* on an account than PikPak has acknowledged there, and on an account that has
\* not refused for its quota none of another day than the row's: a task is
\* counted once, under one day, whichever day the counting statement believes it
\* is and whatever resets, operators and restarts come between
\* (account/service.go:373, and the resets around it).
THEOREM CountsAreOfTheDay ==
    ASSUME \A r \in InitialRows, a \in Account : r[a].count = 0
    PROVE  Spec => []CountOfTheDay
<1>1. Init => CountInv
  <2> SUFFICES ASSUME Init, NEW a \in Account
               PROVE  /\ IsFiniteSet(Created(a)) /\ row[a].count <= Cardinality(Booked(a))
                      /\ row[a].count <= Cardinality(CountedOn(a, row[a].lastDay))
    BY DEF CountInv
  <2>1. Created(a) = {} /\ Booked(a) = {} /\ CountedOn(a, row[a].lastDay) = {}
    BY DEF Init, NewSub, Created, Booked, CountedOn
  <2>2. row[a].count = 0
    BY DEF Init
  <2> QED
    BY <2>1, <2>2, FS_EmptySet
<1>2. TypeInv /\ SoundInv /\ CountInv /\ [Next]_vars => CountInv'
  BY BookedStep, DayStep DEF CountInv
<1>3. TypeInv /\ SoundInv /\ CountInv => CountOfTheDay
  <2> SUFFICES ASSUME TypeInv, CountInv, NEW a \in Account
               PROVE  /\ row[a].count <= Cardinality(Created(a))
                      /\ ~ QuotaRefused(a)
                         => row[a].count <= Cardinality(CountedOn(a, row[a].lastDay))
    BY DEF CountOfTheDay
  <2>1. IsFiniteSet(Created(a)) /\ row[a].count <= Cardinality(Booked(a))
    BY DEF CountInv
  <2>2. row[a].count \in Nat /\ Cardinality(Created(a)) \in Nat
    BY <2>1, FS_CardinalityType DEF TypeInv, TypeOK, Row
  <2>3. row[a].count <= Cardinality(Created(a))
    BY <2>1, <2>2, BookedFinite
  <2> QED
    BY <2>3 DEF CountInv
<1> QED
  BY <1>1, <1>2, <1>3, SpecSound, PTL DEF Spec

(***************************************************************************)
(* The round robin.  While every creation succeeds and nobody changes the  *)
(* pool, equal accounts stay equal and a submission selects once, among    *)
(* all of them.  Their shares are then those of a dealer who has gone      *)
(* round n times and dealt one more to the accounts of ranks 1 to r, with  *)
(* the cursor pointing at rank r.                                          *)
(***************************************************************************)
Quiet == Answers = {"ok"} /\ MaxEvents = 0

Alike(rows) ==
    /\ \A a \in Account :
         /\ rows[a].stored = "live" /\ rows[a].enabled /\ rows[a].status = "HEALTHY"
         /\ rows[a].buildable
         /\ \A s \in Submission : Need[s] = 0 \/ rows[a].free >= Need[s]
    /\ \A a, b \in Account : rows[a].prio = rows[b].prio /\ rows[a].free = rows[b].free

Undecided == {"idle", "begin", "reset", "list"}

Unopposed(v) ==
    /\ v.pc \in Undecided => v.acc = NoAccount /\ v.tried = {}
    /\ v.pc \in {"answered", "write"} => v.answer[v.acc] = "ok"

Calm ==
    /\ Alike(row)
    /\ cooling = {} /\ deleting = {}
    /\ \A s \in Submission : Unopposed(sub[s])

Served(a) == {s \in Submission : sub[s].acc = a}
Rank(a)   == Cardinality({b \in Account : b < a})

After(r) == IF r + 1 = Cardinality(Account) THEN 0 ELSE r + 1

DealtTo(n, r) ==
    \A a \in Account :
        /\ IsFiniteSet(Served(a))
        /\ Share(a) = n + (IF Rank(a) \in 1 .. r THEN 1 ELSE 0)

PointsAt(c, r) ==
    /\ c < CursorMod
    /\ \E q \in Nat : c = Cardinality(Account) * q + r

Dealt ==
    \A x \in Account : \E n \in Nat, r \in 0 .. Cardinality(Account) - 1 :
        DealtTo(n, r) /\ PointsAt(cursor[row[x].prio], r)

\* What remains of a division.
LEMMA Remainder ==
    ASSUME NEW k \in Nat \ {0}, NEW q \in Nat, NEW r \in 0 .. k - 1
    PROVE  (k * q + r) % k = r
  BY SMT

\* Turning the cursor, kept modulo a multiple of the number of accounts, points
\* it at the next rank.
LEMMA CursorTurned ==
    ASSUME NEW c \in Nat, NEW r \in 0 .. Cardinality(Account) - 1,
           Cardinality(Account) \in Nat, PointsAt(c, r)
    PROVE  /\ PointsAt((c + 1) % CursorMod, After(r))
           /\ ((c + 1) % CursorMod) % Cardinality(Account) = After(r)
<1> DEFINE k == Cardinality(Account)
           d == (c + 1) % CursorMod
<1>k. k \in Nat \ {0} /\ CursorMod \in Nat \ {0} /\ CursorMod % k = 0
  BY CursorAssumption, SchedulerAssumption
<1>1. PICK q \in Nat : c = k * q + r /\ c < CursorMod
  BY DEF PointsAt
<1>2. \E q2 \in Nat : d = k * q2 + After(r) /\ d < CursorMod
  <2>1. CASE c + 1 < CursorMod
    <3>1. d = c + 1
      BY <2>1, <1>k
    <3>2. CASE r + 1 = k
      <4>1. c + 1 = k * (q + 1) + 0
        BY <1>1, <1>k, <3>2
      <4> QED
        BY <4>1, <3>1, <3>2, <2>1 DEF After
    <3>3. CASE r + 1 # k
      <4>1. c + 1 = k * q + (r + 1)
        BY <1>1, <1>k
      <4> QED
        BY <4>1, <3>1, <3>3, <2>1 DEF After
    <3> QED
      BY <3>2, <3>3
  <2>2. CASE c + 1 = CursorMod
    <3>1. d = 0
      BY <2>2, <1>k
    <3>2. r + 1 = k
      <4>1. SUFFICES ASSUME r + 1 # k PROVE FALSE
        OBVIOUS
      <4>2. r + 1 \in 0 .. k - 1
        BY <1>k, <4>1
      <4>e. CursorMod = k * q + (r + 1)
        BY <2>2, <1>1, <1>k
      <4>3. CursorMod % k = r + 1
        BY <4>2, <4>e, <1>k, Remainder
      <4> QED
        BY <4>3, <1>k
    <3>3. d = k * 0 + After(r)
      BY <3>1, <3>2, <1>k DEF After
    <3> QED
      BY <3>1, <3>3, <1>k
  <2> QED
    BY <1>1, <1>k, <2>1, <2>2
<1>3. After(r) \in 0 .. k - 1
  BY <1>k DEF After
<1>4. d % k = After(r)
  BY <1>2, <1>3, <1>k, Remainder
<1> QED
  BY <1>2, <1>4 DEF PointsAt

\* The ranks of the accounts are different and below their number.
LEMMA Ranks ==
    /\ Cardinality(Account) \in Nat
    /\ \A a, b \in Account :
         /\ Rank(a) \in 0 .. Cardinality(Account) - 1
         /\ a # b => Rank(a) # Rank(b)
<1> DEFINE Below(a) == {b \in Account : b < a}
<1>a. IsFiniteSet(Account) /\ Account \subseteq Nat /\ Cardinality(Account) \in Nat
  BY PoolAssumption, FS_CardinalityType
<1>1. ASSUME NEW a \in Account
      PROVE  IsFiniteSet(Below(a)) /\ Rank(a) \in 0 .. Cardinality(Account) - 1
  <2>1. Below(a) \in SUBSET Account /\ a \notin Below(a)
    BY <1>a
  <2>2. /\ IsFiniteSet(Below(a)) /\ Cardinality(Below(a)) \in Nat
        /\ Cardinality(Below(a)) <= Cardinality(Account)
        /\ Cardinality(Below(a)) # Cardinality(Account)
    BY <2>1, <1>a, FS_Subset, FS_CardinalityType
  <2> QED
    BY <2>2, <1>a DEF Rank
<1>2. ASSUME NEW a \in Account, NEW b \in Account, a < b PROVE Rank(a) # Rank(b)
  <2>n. \A c \in Account : c \in Nat
    BY <1>a
  <2>1. \A c \in Account : c < a => c < b
    BY <1>2, <2>n
  <2>2. Below(a) \in SUBSET Below(b)
    BY <2>1
  <2>3. a \in Below(b) /\ a \notin Below(a)
    BY <1>2, <2>n
  <2> QED
    BY <2>2, <2>3, <1>1, FS_Subset DEF Rank
<1>3. ASSUME NEW a \in Account, NEW b \in Account, a # b PROVE Rank(a) # Rank(b)
  <2>1. a < b \/ b < a
    BY <1>a, <1>3
  <2> QED
    BY <2>1, <1>2
<1> QED
  BY <1>a, <1>1, <1>3

\* Among equal accounts the rotation of a first selection is all of them, in
\* the order of their ranks.
LEMMA RotationOfEquals ==
    ASSUME TypeInv, Alike(row), NEW s \in Submission
    PROVE  /\ Rotation(row, Candidates(row, {}, Need[s]), Need[s], balancing) = Account
           /\ \A a \in Account : Index(row, balancing, Account, a) = Rank(a)
<1>r. \A a \in Account : row[a] \in Row /\ row[a].free \in Int
  BY PoolAssumption DEF TypeInv, TypeOK, Row
<1>1. Candidates(row, {}, Need[s]) = Account
  BY DEF Alike, Candidates, UsableAccounts, Usable, Available, Live
<1>2. Preferred(row, Account, Need[s]) = Account
  BY DEF Alike, Preferred, Roomy
<1>3. TopPriority(row, Account) = Account
  <2>1. \A a \in Account : row[a].prio \in Nat
    BY <1>r, PoolAssumption DEF Row
  <2> QED
    BY <2>1 DEF Alike, TopPriority
<1>4. MostFree(row, Account) = Account
  <2>1. \A a, b \in Account : row[b].free - row[a].free = 0
    BY <1>r DEF Alike
  <2>2. 0 < NearFree
    BY PoolAssumption
  <2> QED
    BY <2>1, <2>2 DEF MostFree
<1>5. \A a, b \in Account : Before(row, balancing, b, a) <=> b < a
  BY DEF Alike, Before
<1> QED
  BY <1>1, <1>2, <1>3, <1>4, <1>5 DEF Rotation, Index, Rank

\* With every creation answered ok and no events left, only submissions, the
\* ticker and midnight move.
LEMMA QuietNext ==
    ASSUME Quiet, TypeInv, Calm, Next
    PROVE  \/ \E s \in Submission : Submit(s) \/ Work(s)
           \/ /\ sub' = sub /\ cursor' = cursor
              /\ cooling' = cooling /\ deleting' = deleting
              /\ row' = row \/ \E d \in Date : row' = ResetRows(d)
<1>1. ~ Event
  BY DEF Quiet, Event, TypeInv, TypeOK
<1>2. ASSUME NEW a \in Account PROVE ~ Operate(a)
  BY <1>1 DEF Calm, Operate, CreateAccount, UpdateAccount, DeleteAccount, DeleteRow,
              ResetQuota, TestAccount, SyncAccountStorage, InitializeAccount,
              OtherTraffic429
<1>3. ~ UpdateSettings /\ ~ Restart /\ ~ \E c \in cooling : CooldownEnds(c)
  BY <1>1 DEF Calm, UpdateSettings, Restart
<1>4. ticker \in Date
  BY DEF TypeInv, TypeOK
<1> QED
  BY <1>2, <1>3, <1>4 DEF Next, Tick, TickReset, Midnight, WriteTable, table, memory

\* The statements that write a row leave what makes the accounts alike.
LEMMA StayAlike ==
    ASSUME TypeInv, Alike(row)
    PROVE  /\ \A d \in Date :
                Alike(ResetRows(d)) /\ \A a \in Account : ResetRows(d)[a].prio = row[a].prio
           /\ \A d \in Date, b \in Account :
                LET new == [row EXCEPT ![b] = TaskCounted(row[b], d)]
                IN  Alike(new) /\ \A a \in Account : new[a].prio = row[a].prio
<1>r. row \in [Account -> Row] /\ \A a \in Account : row[a] \in Row
  BY DEF TypeInv, TypeOK
<1>0. ASSUME NEW new,
             \A a \in Account :
               /\ new[a].stored = row[a].stored /\ new[a].enabled = row[a].enabled
               /\ new[a].status = row[a].status /\ new[a].buildable = row[a].buildable
               /\ new[a].prio = row[a].prio /\ new[a].free = row[a].free
      PROVE  Alike(new) /\ \A a \in Account : new[a].prio = row[a].prio
  BY <1>0 DEF Alike
<1>1. ASSUME NEW d \in Date, NEW a \in Account
      PROVE  LET r == ResetRows(d)[a]
             IN  /\ r.stored = row[a].stored /\ r.enabled = row[a].enabled
                 /\ r.status = row[a].status /\ r.buildable = row[a].buildable
                 /\ r.prio = row[a].prio /\ r.free = row[a].free
  BY <1>r DEF Alike, ResetRows, AutoReset, Row
<1>2. ASSUME NEW d \in Date, NEW b \in Account, NEW a \in Account
      PROVE  LET r == [row EXCEPT ![b] = TaskCounted(row[b], d)][a]
             IN  /\ r.stored = row[a].stored /\ r.enabled = row[a].enabled
                 /\ r.status = row[a].status /\ r.buildable = row[a].buildable
                 /\ r.prio = row[a].prio /\ r.free = row[a].free
  BY <1>r DEF TaskCounted, WhereLive, Row
<1> QED
  BY <1>0, <1>1, <1>2

\* Whose account a submission works on changes only when it selects.
LEMMA SharesKept ==
    ASSUME NEW n, NEW r, DealtTo(n, r), \A s \in Submission : sub'[s].acc = sub[s].acc
    PROVE  DealtTo(n, r)'
  BY DEF DealtTo, Served, Share

\* A selection deals to the next account.
LEMMA DealtOneMore ==
    ASSUME TypeInv, NEW s \in Submission, NEW a \in Account,
           sub[s].acc = NoAccount,
           \A t \in Submission : sub'[t].acc = IF t = s THEN a ELSE sub[t].acc,
           NEW n \in Nat, NEW r \in 0 .. Cardinality(Account) - 1, DealtTo(n, r),
           Rank(a) = After(r)
    PROVE  \E m \in Nat : DealtTo(m, After(r))'
<1> DEFINE K == Cardinality(Account)
           Extra(b, q) == IF Rank(b) \in 1 .. q THEN 1 ELSE 0
<1>k. K \in Nat \ {0} /\ r \in 0 .. K - 1 /\ \A b \in Account : Rank(b) \in 0 .. K - 1
  BY Ranks
<1>1. NoAccount \notin Account
  BY PoolAssumption DEF NoAccount
<1>2. \A b \in Account : Served(b)' = IF b = a THEN Served(b) \cup {s} ELSE Served(b)
  BY <1>1 DEF Served
<1>3. s \notin Served(a)
  BY <1>1 DEF Served
<1>4. ASSUME NEW b \in Account
      PROVE  /\ IsFiniteSet(Served(b)')
             /\ Share(b)' = Share(b) + (IF b = a THEN 1 ELSE 0)
  <2>1. IsFiniteSet(Served(b)) /\ Cardinality(Served(b)) \in Nat
    BY FS_CardinalityType DEF DealtTo
  <2>2. Share(b) = Cardinality(Served(b)) /\ Share(b)' = Cardinality(Served(b)')
    BY DEF Share, Served
  <2> QED
    BY <1>2, <1>3, <2>1, <2>2, FS_AddElement
<1> DEFINE m == IF r + 1 = K THEN n + 1 ELSE n
<1>5. ASSUME NEW b \in Account
      PROVE  n + Extra(b, r) + (IF b = a THEN 1 ELSE 0) = m + Extra(b, After(r))
  <2>1. b = a <=> Rank(b) = After(r)
    BY Ranks
  <2> QED
    BY <2>1, <1>k DEF After
<1>6. \A b \in Account : Rank(b)' = Rank(b)
  BY DEF Rank
<1>7. ASSUME NEW b \in Account
      PROVE  IsFiniteSet(Served(b)') /\ Share(b)' = m + Extra(b, After(r))
  <2>1. Share(b) = n + Extra(b, r)
    BY DEF DealtTo
  <2> QED
    BY <2>1, <1>4, <1>5
<1>8. m \in Nat
  BY <1>k
<1> HIDE DEF m
<1>9. DealtTo(m, After(r))'
  BY <1>7, <1>6 DEF DealtTo, After
<1> QED
  BY <1>8, <1>9

\* What a step of a submission does while the pool is calm: it selects an
\* account for the first time, counts its task, resets the counts, or changes
\* neither the rows nor the account at hand.
LEMMA QuietWork ==
    ASSUME Quiet, TypeInv, Calm, NEW s \in Submission, Submit(s) \/ Work(s)
    PROVE  /\ cooling' = cooling /\ deleting' = deleting
           /\ \/ /\ row' = row
                 /\ \E a \in Account : Select(s, a)
              \/ /\ cursor' = cursor
                 /\ \A t \in Submission : sub'[t].acc = sub[t].acc
                 /\ \/ row' = row
                    \/ \E d \in Date : row' = ResetRows(d)
                    \/ \E d \in Date, b \in Account :
                         row' = [row EXCEPT ![b] = TaskCounted(row[b], d)]
<1>s. /\ sub \in [Submission -> SubState] /\ sub[s] \in SubState
      /\ sub[s].pc \in Occupied => sub[s].acc \in Account
      /\ sub[s].day \in Date
  BY DEF TypeInv, TypeOK, AccountChosen, SubState
<1>a. ASSUME NEW v, sub' = [sub EXCEPT ![s] = v], v.acc = sub[s].acc
      PROVE  \A t \in Submission : sub'[t].acc = sub[t].acc
  BY <1>a, <1>s
<1>1. CASE Submit(s)
  BY <1>1, <1>a, <1>s DEF Submit, Move, SubState, memory, world
<1>2. CASE CaptureDay(s)
  BY <1>2, <1>a, <1>s DEF CaptureDay, SubState, table, memory, world
<1>3. CASE ResetQuotas(s)
  <2>1. row' = ResetRows(sub[s].day)
    BY <1>3 DEF ResetQuotas, WriteTable
  <2>2. \A t \in Submission : sub'[t].acc = sub[t].acc
    BY <1>3, <1>a, <1>s DEF ResetQuotas, SubState
  <2> QED
    BY <1>3, <1>s, <2>1, <2>2 DEF ResetQuotas, memory, world
<1>4. CASE GiveUp(s)
  BY <1>4, <1>a, <1>s DEF GiveUp, Return, SubState, table, memory, world
<1>5. ASSUME NEW a \in Account, Select(s, a)
      PROVE  row' = row /\ cooling' = cooling /\ deleting' = deleting
  BY <1>5 DEF Select, table, world
<1>6. CASE LockAccount(s)
  BY <1>6, <1>a, <1>s DEF LockAccount, Move, SubState, table, world
<1>7. CASE GetClient(s)
  BY <1>7, <1>a, <1>s DEF GetClient, SubState, table, world
<1>8. ~ NoClient(s)
  BY <1>s DEF NoClient, CanGetClient, Live, Calm, Alike, Occupied
<1>9. ~ RefuseLocally(s)
  BY DEF RefuseLocally, Cooling, Calm
<1>10. ASSUME NEW o \in Answers, Reply(s, o)
       PROVE  /\ row' = row /\ cursor' = cursor
              /\ cooling' = cooling /\ deleting' = deleting
              /\ \A t \in Submission : sub'[t].acc = sub[t].acc
  <2>1. o = "ok"
    BY DEF Quiet
  <2>2. Heard(s, o).acc = sub[s].acc
    BY <1>s DEF Heard, SubState
  <2>3. sub' = [sub EXCEPT ![s] = Heard(s, o)]
    BY <1>10 DEF Reply, Answered
  <2> QED
    BY <1>10, <2>1, <2>2, <2>3, <1>a DEF Reply, table, world
<1>11. CASE CaptureWriteDay(s)
  BY <1>11, <1>a, <1>s DEF CaptureWriteDay, SubState, table, memory, world
<1>12. CASE CountTask(s)
  <2>1. sub[s].acc \in Account
    BY <1>12, <1>s DEF CountTask, Occupied
  <2>2. row' = [row EXCEPT ![sub[s].acc] = TaskCounted(row[sub[s].acc], sub[s].day)]
    BY <1>12 DEF CountTask, WriteRow, WriteTable
  <2>3. \A t \in Submission : sub'[t].acc = sub[t].acc
    BY <1>12, <1>a, <1>s DEF CountTask, SubState
  <2> QED
    BY <1>12, <1>s, <2>1, <2>2, <2>3 DEF CountTask, memory, world
<1>13. /\ ~ MarkExhausted(s) /\ ~ CoolDown(s) /\ ~ MarkFailed(s)
       /\ ~ FailOver(s) /\ ~ Fail(s)
  BY DEF MarkExhausted, CoolDown, MarkFailed, FailOver, Fail, LastAnswer, Calm, Unopposed
<1> QED
  BY <1>1, <1>2, <1>3, <1>4, <1>5, <1>6, <1>7, <1>8, <1>9, <1>10, <1>11, <1>12, <1>13
  DEF Work

\* A submission that meets no failure selects once and is answered ok.
LEMMA StaysUnopposed ==
    ASSUME Quiet, TypeInv, Calm, NEW s \in Submission, Submit(s) \/ Work(s)
    PROVE  Unopposed(sub'[s])
<1>s. /\ sub \in [Submission -> SubState] /\ sub[s] \in SubState /\ Unopposed(sub[s])
      /\ sub[s].pc \in Occupied => sub[s].acc \in Account
  BY DEF TypeInv, TypeOK, AccountChosen, Calm, SubState
<1>1. CASE Submit(s)
  BY <1>1, <1>s DEF Submit, Move, SubState, Unopposed, Undecided
<1>2. CASE CaptureDay(s)
  BY <1>2, <1>s DEF CaptureDay, SubState, Unopposed, Undecided
<1>3. CASE ResetQuotas(s)
  BY <1>3, <1>s DEF ResetQuotas, SubState, Unopposed, Undecided
<1>4. CASE GiveUp(s)
  BY <1>4, <1>s DEF GiveUp, Return, SubState, Unopposed, Undecided
<1>5. ASSUME NEW a \in Account, Select(s, a) PROVE Unopposed(sub'[s])
  <2>1. sub' = [sub EXCEPT ![s] =
                  [sub[s] EXCEPT !.pc = "lock", !.acc = a, !.tried = sub[s].tried \cup {a}]]
    BY <1>5 DEF Select
  <2> QED
    BY <2>1, <1>s DEF SubState, Unopposed, Undecided
<1>6. CASE LockAccount(s)
  BY <1>6, <1>s DEF LockAccount, Move, SubState, Unopposed, Undecided
<1>7. CASE GetClient(s)
  BY <1>7, <1>s DEF GetClient, SubState, Unopposed, Undecided
<1>8. ~ NoClient(s)
  BY <1>s DEF NoClient, CanGetClient, Live, Calm, Alike, Occupied
<1>9. ~ RefuseLocally(s)
  BY DEF RefuseLocally, Cooling, Calm
<1>10. ASSUME NEW o \in Answers, Reply(s, o) PROVE Unopposed(sub'[s])
  <2>1. o = "ok" /\ sub[s].acc \in Account
    BY <1>10, <1>s DEF Quiet, Reply, Answered, Occupied
  <2>2. Heard(s, o) = [sub[s] EXCEPT !.pc = "answered", !.n = 0, !.answer[sub[s].acc] = o]
    BY <2>1 DEF Heard, RetryAfter
  <2>3. sub'[s] = Heard(s, o)
    BY <1>10, <1>s DEF Reply, Answered
  <2> QED
    BY <2>1, <2>2, <2>3, <1>s DEF SubState, Unopposed, Undecided
<1>11. CASE CaptureWriteDay(s)
  BY <1>11, <1>s DEF CaptureWriteDay, SubState, Unopposed, Undecided
<1>12. CASE CountTask(s)
  BY <1>12, <1>s DEF CountTask, SubState, Unopposed, Undecided
<1>13. /\ ~ MarkExhausted(s) /\ ~ CoolDown(s) /\ ~ MarkFailed(s)
       /\ ~ FailOver(s) /\ ~ Fail(s)
  BY DEF MarkExhausted, CoolDown, MarkFailed, FailOver, Fail, LastAnswer, Calm, Unopposed
<1> QED
  BY <1>1, <1>2, <1>3, <1>4, <1>5, <1>6, <1>7, <1>8, <1>9, <1>10, <1>11, <1>12, <1>13
  DEF Work

\* The calm lasts: nothing but a failure or an operator ends it.
LEMMA CalmStep ==
    ASSUME Quiet, TypeInv, Calm, [Next]_vars
    PROVE  /\ Calm'
           /\ \A a \in Account : row'[a].prio = row[a].prio
<1>a. Alike(row) /\ cooling = {} /\ deleting = {} /\ \A s \in Submission : Unopposed(sub[s])
  BY DEF Calm
<1>1. ASSUME cooling' = cooling, deleting' = deleting,
             \A s \in Submission : Unopposed(sub'[s]),
             \/ row' = row
             \/ \E d \in Date : row' = ResetRows(d)
             \/ \E d \in Date, b \in Account :
                  row' = [row EXCEPT ![b] = TaskCounted(row[b], d)]
      PROVE  Calm' /\ \A a \in Account : row'[a].prio = row[a].prio
  <2>0. row' = row => Alike(row') /\ \A a \in Account : row'[a].prio = row[a].prio
    BY <1>a
  <2>d. ASSUME NEW d \in Date, row' = ResetRows(d)
        PROVE  Alike(row') /\ \A a \in Account : row'[a].prio = row[a].prio
    BY <2>d, <1>a, StayAlike
  <2>c. ASSUME NEW d \in Date, NEW b \in Account,
               row' = [row EXCEPT ![b] = TaskCounted(row[b], d)]
        PROVE  Alike(row') /\ \A a \in Account : row'[a].prio = row[a].prio
    BY <2>c, <1>a, StayAlike
  <2>1. Alike(row') /\ \A a \in Account : row'[a].prio = row[a].prio
    BY <1>1, <1>a, <2>0, <2>d, <2>c
  <2> QED
    BY <2>1, <1>1, <1>a DEF Calm, Alike
<1>2. CASE UNCHANGED vars
  BY <1>2, <1>a, <1>1 DEF vars
<1>3. ASSUME NEW s \in Submission, Submit(s) \/ Work(s)
      PROVE  Calm' /\ \A a \in Account : row'[a].prio = row[a].prio
  <2>1. \A t \in Submission : Unopposed(sub'[t])
    BY <1>3, <1>a, StaysUnopposed, OthersWait
  <2> QED
    BY <2>1, <1>3, <1>1, QuietWork
<1>4. CASE Next
  BY <1>4, <1>3, <1>1, <1>a, QuietNext
<1> QED
  BY <1>2, <1>4

\* The next rank gets the next task.
LEMMA DealtStep ==
    ASSUME Quiet, TypeInv, Calm, Dealt, [Next]_vars
    PROVE  Dealt'
<1> SUFFICES ASSUME NEW x \in Account
             PROVE  \E n \in Nat, r \in 0 .. Cardinality(Account) - 1 :
                      DealtTo(n, r)' /\ PointsAt(cursor'[row'[x].prio], r)
  BY DEF Dealt, PointsAt
<1> DEFINE K == Cardinality(Account)
           p == row[x].prio
<1>1. PICK n \in Nat, r \in 0 .. K - 1 : DealtTo(n, r) /\ PointsAt(cursor[p], r)
  BY DEF Dealt
<1>t. /\ row'[x].prio = p /\ p \in Prio
      /\ cursor \in [Prio -> Nat] /\ cursor[p] \in Nat
  BY CalmStep DEF TypeInv, TypeOK, Row
<1>2. ASSUME cursor' = cursor, \A t \in Submission : sub'[t].acc = sub[t].acc
      PROVE  DealtTo(n, r)' /\ PointsAt(cursor'[row'[x].prio], r)
  BY <1>1, <1>2, <1>t, SharesKept
<1>3. ASSUME NEW s \in Submission, NEW a \in Account, Select(s, a)
      PROVE  \E m \in Nat : DealtTo(m, After(r))' /\ PointsAt(cursor'[row'[x].prio], After(r))
  <2>1. /\ sub[s].acc = NoAccount /\ sub[s].tried = {} /\ Alike(row)
        /\ sub \in [Submission -> SubState] /\ sub[s] \in SubState
    BY <1>3 DEF Calm, Unopposed, Undecided, Select, TypeInv, TypeOK
  <2>2. Rotation(row, Candidates(row, {}, Need[s]), Need[s], balancing) = Account
    BY <2>1, RotationOfEquals
  <2>3. row[a].prio = p
    BY <2>1 DEF Alike
  <2>4. \A t \in Submission : sub'[t].acc = IF t = s THEN a ELSE sub[t].acc
    <3>1. sub' = [sub EXCEPT ![s] =
                    [sub[s] EXCEPT !.pc = "lock", !.acc = a, !.tried = sub[s].tried \cup {a}]]
      BY <1>3 DEF Select
    <3> QED
      BY <3>1, <2>1 DEF SubState
  <2>5. IF Turns(Account)
        THEN /\ Index(row, balancing, Account, a) = ((cursor[p] + 1) % CursorMod) % K
             /\ cursor' = Turned(p)
        ELSE cursor' = cursor
    BY <1>3, <2>1, <2>2, <2>3 DEF Select
  <2>6. Index(row, balancing, Account, a) = Rank(a)
    BY <2>1, RotationOfEquals
  <2>7. Rank(a) = After(r) /\ PointsAt(cursor'[p], After(r))
    <3>1. CASE Turns(Account)
      <4>1. cursor'[p] = (cursor[p] + 1) % CursorMod
        BY <2>5, <3>1, <1>t DEF Turned
      <4> QED
        BY <4>1, <2>5, <2>6, <3>1, <1>1, <1>t, CursorTurned, Ranks
    <3>2. CASE ~ Turns(Account)
      <4>1. K = 1 /\ cursor' = cursor
        BY <2>5, <3>2 DEF Turns
      <4>2. r = 0 /\ After(r) = 0 /\ Rank(a) = 0
        BY <4>1, Ranks DEF After
      <4> QED
        BY <4>1, <4>2, <1>1
    <3> QED
      BY <3>1, <3>2
  <2>8. \E m \in Nat : DealtTo(m, After(r))'
    BY <1>1, <2>1, <2>4, <2>7, DealtOneMore
  <2> QED
    BY <2>7, <2>8, <1>t
<1>4. After(r) \in 0 .. K - 1
  BY Ranks DEF After
<1>5. CASE UNCHANGED vars
  BY <1>5, <1>2, <1>1 DEF vars
<1>6. ASSUME NEW s \in Submission, Submit(s) \/ Work(s)
      PROVE  \/ DealtTo(n, r)' /\ PointsAt(cursor'[row'[x].prio], r)
             \/ \E m \in Nat : DealtTo(m, After(r))' /\ PointsAt(cursor'[row'[x].prio], After(r))
  BY <1>6, <1>2, <1>3, QuietWork
<1>7. CASE Next
  <2>1. CASE sub' = sub /\ cursor' = cursor
    BY <2>1, <1>2, <1>1
  <2> QED
    BY <1>7, <2>1, <1>1, <1>4, <1>6, QuietNext
<1> QED
  BY <1>5, <1>7

\* Accounts that were dealt to in turn have shares that differ by one at most.
LEMMA DealtIsEven == Dealt => EvenRotation
<1> SUFFICES ASSUME Dealt, NEW a \in Account, NEW b \in Account
             PROVE  Share(a) <= Share(b) + 1
  BY DEF EvenRotation
<1>1. PICK n \in Nat, r \in 0 .. Cardinality(Account) - 1 : DealtTo(n, r)
  BY DEF Dealt
<1>2. Share(a) \in {n, n + 1} /\ Share(b) \in {n, n + 1}
  BY <1>1 DEF DealtTo
<1> QED
  BY <1>2

\* Started on accounts that are all alike and able to take every submission, and
\* while every creation succeeds and no operator acts, the round robin gives
\* every account of any number of accounts the same number of tasks, give or
\* take one, however many submissions select concurrently (scheduler.go:223).
THEOREM AlikeAccountsShareEvenly ==
    ASSUME Answers = {"ok"}, MaxEvents = 0, \A rows \in InitialRows : Alike(rows)
    PROVE  Spec => []EvenRotation
<1>q. Quiet
  BY DEF Quiet
<1>1. Init => Calm /\ Dealt
  <2> SUFFICES ASSUME Init PROVE Calm /\ Dealt
    OBVIOUS
  <2>1. Calm
    BY DEF Init, NewSub, Calm, Unopposed, Undecided
  <2>2. ASSUME NEW x \in Account
        PROVE  DealtTo(0, 0) /\ PointsAt(cursor[row[x].prio], 0)
               /\ 0 \in 0 .. Cardinality(Account) - 1
    <3>1. ASSUME NEW a \in Account PROVE Served(a) = {} /\ Share(a) = 0
      <4>1. NoAccount \notin Account
        BY PoolAssumption DEF NoAccount
      <4>2. Served(a) = {}
        BY <4>1 DEF Init, NewSub, Served
      <4> QED
        BY <4>2, FS_EmptySet DEF Share, Served
    <3>2. DealtTo(0, 0)
      BY <3>1, FS_EmptySet DEF DealtTo
    <3>3. cursor[row[x].prio] = 0
      BY SchedulerAssumption DEF Init, Row
    <3>4. Rank(x) \in 0 .. Cardinality(Account) - 1 /\ Cardinality(Account) \in Nat
      BY Ranks
    <3>5. 0 = Cardinality(Account) * 0 + 0
      BY <3>4
    <3> QED
      BY <3>2, <3>3, <3>4, <3>5, SchedulerAssumption DEF PointsAt
  <2>3. 0 \in Nat
    OBVIOUS
  <2> QED
    BY <2>1, <2>2, <2>3 DEF Dealt
<1>2. TypeInv /\ Calm /\ Dealt /\ [Next]_vars => Calm' /\ Dealt'
  BY <1>q, CalmStep, DealtStep
<1>3. Dealt => EvenRotation
  BY DealtIsEven
<1> QED
  BY <1>1, <1>2, <1>3, SpecSound, PTL DEF Spec
=============================================================================
