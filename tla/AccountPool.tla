---------------------------- MODULE AccountPool ----------------------------
(***************************************************************************)
(* The pikpak_accounts table and the pure part of account selection.       *)
(*                                                                         *)
(* A row keeps the columns that scheduling reads or writes.  Days are the  *)
(* UTC dates the code formats as "2006-01-02"; NoDate is SQL NULL.  Space  *)
(* is abstracted to the few values the selection rules tell apart: MinFree *)
(* stands for the minimum free space setting and NearFree for 200 MB.      *)
(***************************************************************************)
EXTENDS Integers, FiniteSets

CONSTANTS
    Account,     \* ids of pikpak_accounts, in AUTOINCREMENT order
    Prio,        \* priorities an operator may give an account
    Space,       \* total_space - used_space, as last synchronised
    MinFree,     \* StorageMinFreeGB
    NearFree,    \* accounts this close to the largest free space rotate
    MaxDay       \* bound: the last UTC day of the model

ASSUME PoolAssumption ==
    /\ Account \subseteq Nat /\ IsFiniteSet(Account)
    /\ Prio \subseteq Nat
    /\ Space \subseteq Int /\ 0 \in Space
    /\ MinFree \in Nat \ {0} /\ NearFree \in Nat \ {0}
    /\ MaxDay \in Nat

NoDate == -1
Day    == 0 .. MaxDay
Date   == Day \cup {NoDate}

\* RATE_LIMITED, DISABLED and COOLDOWN are named in the model comment but no
\* statement ever writes them.
Status == {"HEALTHY", "QUOTA_EXHAUSTED", "PROXY_FAILED", "AUTH_FAILED"}

Row == [stored      : {"unborn", "live", "deleted"},
        enabled     : BOOLEAN,
        status      : Status,
        lastDay     : Date,     \* last_task_date
        exhaustedOn : Date,     \* quota_exhausted_at
        count       : Nat,      \* daily_task_count
        prio        : Prio,
        free        : Space,
        buildable   : BOOLEAN]  \* NewClient accepts proxy_url, which nothing validates

(***************************************************************************)
(* The UPDATE statements, as functions from a row to a row.                *)
(***************************************************************************)
Live(r) == r.stored = "live"

\* UPDATE ... WHERE id = ? changes nothing when the row is gone.
WhereLive(r, new) == IF Live(r) THEN new ELSE r

Failed(r, status) == WhereLive(r, [r EXCEPT !.status = status])

Exhausted(r, d) ==
    WhereLive(r, [r EXCEPT !.status = "QUOTA_EXHAUSTED",
                           !.exhaustedOn = d, !.lastDay = d])

QuotaReset(r) ==
    WhereLive(r, [r EXCEPT !.status = "HEALTHY",
                           !.exhaustedOn = NoDate, !.count = 0])

\* Mutant: the count goes on from one day to the next.
TaskCountedOn(r, d) == WhereLive(r, [r EXCEPT !.count = @ + 1, !.lastDay = d])

TaskCounted(r, d) ==
    WhereLive(r, [r EXCEPT !.count = IF r.lastDay = d THEN r.count + 1 ELSE 1,
                           !.lastDay = d])

\* Mutant: only rows that were never dated are looked at.
DayOverUndated(r, d) == r.status = "QUOTA_EXHAUSTED" /\ r.lastDay = NoDate

DayOver(r, d) ==
    \/ r.status = "QUOTA_EXHAUSTED" /\ r.lastDay # d
    \/ r.lastDay # NoDate /\ r.lastDay # d

AutoReset(r, d) ==
    IF Live(r) /\ DayOver(r, d)
    THEN [r EXCEPT
            !.status = IF @ = "QUOTA_EXHAUSTED" THEN "HEALTHY" ELSE @,
            !.exhaustedOn = IF r.status = "QUOTA_EXHAUSTED" THEN NoDate ELSE @,
            !.count = 0,
            !.lastDay = d]
    ELSE r

(***************************************************************************)
(* GetAvailableAccounts and SelectAccount.  cooldown_until is a column no  *)
(* statement writes, so the cooldown test of the code never rejects a row. *)
(***************************************************************************)
Available(r) ==
    /\ Live(r)
    /\ r.enabled
    /\ r.status \notin {"QUOTA_EXHAUSTED", "AUTH_FAILED", "PROXY_FAILED"}

\* Negative free space counts as none; need = 0 is "no size was given".
Usable(r, need) == Available(r) /\ (need = 0 \/ r.free >= need)

UsableAccounts(rows, need) == {a \in Account : Usable(rows[a], need)}

\* Selection does not look at proxy_url: an account no client can be built for
\* is selected like any other.
Serviceable(r, need) == Usable(r, need) /\ r.buildable

ServiceableAccounts(rows, need) == {a \in Account : Serviceable(rows[a], need)}

Roomy(rows, C) == {a \in C : rows[a].free >= MinFree}

\* Mutant: accounts that already failed this submission are not excluded.
CandidatesAgain(rows, tried, need) == UsableAccounts(rows, need)

\* Mutant: accounts below the minimum free space are dropped for good.
CandidatesRoomy(rows, tried, need) ==
    Roomy(rows, UsableAccounts(rows, need)) \ tried

Candidates(rows, tried, need) == UsableAccounts(rows, need) \ tried

Preferred(rows, C, need) ==
    IF need = 0 /\ Roomy(rows, C) # {} THEN Roomy(rows, C) ELSE C

TopPriority(rows, C) == {a \in C : \A b \in C : rows[b].prio <= rows[a].prio}

MostFree(rows, C) == {a \in C : \A b \in C : rows[b].free - rows[a].free < NearFree}

\* The accounts among which the round robin turns.
Rotation(rows, C, need, balancing) ==
    IF balancing
    THEN MostFree(rows, TopPriority(rows, Preferred(rows, C, need)))
    ELSE TopPriority(rows, C)

\* List order: free space descending when balancing, then id ascending.
Before(rows, balancing, a, b) ==
    IF balancing /\ rows[a].free # rows[b].free
    THEN rows[a].free > rows[b].free
    ELSE a < b

Index(rows, balancing, G, a) ==
    Cardinality({b \in G : Before(rows, balancing, b, a)})

=============================================================================
