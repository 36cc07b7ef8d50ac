----------------------------- MODULE MCWebPages -----------------------------
(***************************************************************************)
(* An instance of WebPages for TLC.                                        *)
(***************************************************************************)
EXTENDS WebPages

CONSTANTS alice, bob, carol     \* user names

Stored(priority, exhausted) ==
    [enabled |-> TRUE, priority |-> priority, exhausted |-> exhausted]

\* Two accounts, one of them exhausted; or one, with the lowest priority.
SomePools ==
    {[a \in 1 .. 2 |-> Stored(10, a = 1)],
     [a \in 1 .. 2 |-> IF a = 1 THEN Stored(0, FALSE) ELSE NoRow]}

\* Seven is a default that the table need not hold.
SevenDefault == [f \in Field |-> 7]

\* The administrator alone, or beside another user.
SomeUsers ==
    {[u \in 1 .. 2 |-> IF u = 1 THEN alice ELSE NoUser],
     [u \in 1 .. 2 |-> IF u = 1 THEN alice ELSE bob]}
=============================================================================
